---------------------------- MODULE Spec2Model ----------------------------
(***************************************************************************)
(* baseDNN: operation registry / dispatcher, WebGPU accelerator session    *)
(* and the accelerated tensor operations.                                  *)
(*                                                                         *)
(* Pointers to objects (registry values, device handles, tensors) are      *)
(* records; the null pointer is the record NULL_PTR.  Function pointers    *)
(* are the function's name as a string; the null function pointer is the   *)
(* string NULL_FN.                                                         *)
(***************************************************************************)
EXTENDS Integers, Sequences, FiniteSets, TLC

VARIABLES
    layer_registry,      \* part_007:89   name -> LayerRegistryEntry
    operation_registry,  \* part_007:117  name -> OperationRegistryEntry
    tensor_op_registry,  \* part_007:144  name -> gradient rule
    optimizer_registry,  \* part_007:164  name -> OptimizerRegistryEntry
    g_webgpu_ctx,        \* webgpu_backend.c:20  the session singleton
    lastInit,            \* outcome of the most recent webgpu_init call
    initAttempts,        \* number of acquisition attempts made by webgpu_init
    everFailed,          \* history: some webgpu_init call returned -1
    opHistory,           \* history: register_operation_backend calls since the last registry_cleanup
    registered,          \* history: names registered per registry since the last registry_cleanup
    userRegs,            \* number of client register_operation_backend calls
    call,                \* the lookup or tensor operation in progress / last completed
    stack,               \* C call stack of the tensor operation in progress
    ret,                 \* value returned by the last completed lookup or tensor operation
    dev,                 \* device activity of the tensor operation in progress / last completed
    poll,                \* one bounded poll loop, iteration by iteration
    node,                \* part_008:54-313  a graph node under its gradient rule: output and inputs
    gpu,                 \* webgpu_ops.c:64-243  device objects, pipeline cache and statements of a call
    maxFrees,            \* history: the most times one malloc'ed registry value was passed to free
    session,             \* webgpu_backend.c:72-264  handles acquired and released by webgpu_init / webgpu_cleanup
    kernel               \* webgpu_backend.h:33-170  the workgroups of a dispatched compute shader

vars == <<layer_registry, operation_registry, tensor_op_registry, optimizer_registry,
          g_webgpu_ctx, lastInit, initAttempts, everFailed, opHistory, registered,
          userRegs, call, stack, ret, dev, poll, node, gpu, maxFrees, session, kernel>>

programVars == <<layer_registry, operation_registry, tensor_op_registry, optimizer_registry,
                 g_webgpu_ctx, lastInit, initAttempts, everFailed, opHistory, registered,
                 userRegs, call, stack, ret, dev, poll, maxFrees>>

regVars == <<layer_registry, operation_registry, tensor_op_registry, optimizer_registry,
             opHistory, registered>>
sessionVars == <<g_webgpu_ctx, lastInit, initAttempts, everFailed>>
callVars == <<call, stack, ret, dev>>

-----------------------------------------------------------------------------
(* Bounds of the model *)

MaxUserRegs == 2
MaxInitAttempts == 2
MaxDepth == 4
MaxHistory == 14

(* Program constants *)

NULL_PTR == [null |-> TRUE]
NULL_FN == "NULL"
CPU_PRIORITY == 0
WEBGPU_PRIORITY == 10
ADAPTER_POLL_BUDGET == 1000
DEVICE_POLL_BUDGET == 1000
MAP_POLL_BUDGET == 10000

AccelOps == {"add", "sub", "mul", "matmul", "relu", "sigmoid", "tanh", "softmax"}
BinaryOps == {"add", "sub", "mul", "matmul"}
UnaryOps == {"relu", "sigmoid", "tanh", "softmax"}
LossNames == {"mse", "cross_entropy", "binary_cross_entropy"}
LayerNames == {"linear", "relu", "sigmoid", "tanh", "softmax"}
OptimizerNames == {"sgd", "adam"}
TensorOpNames == {"add", "sub", "mul", "matmul", "transpose2d", "relu", "sigmoid",
                  "tanh", "softmax", "mse", "cross_entropy", "binary_cross_entropy"}

-----------------------------------------------------------------------------
(* Hash-table helpers.  A Registry is the finite map held by its bucket    *)
(* chains: DOMAIN reg is the set of keys that have a RegistryEntry.        *)

EmptyRegistry == [k \in {} |-> NULL_PTR]

registry_set(reg, key, value) ==
    [k \in (DOMAIN reg) \cup {key} |-> IF k = key THEN value ELSE reg[k]]

registry_get(reg, key) ==
    IF key \in DOMAIN reg THEN reg[key] ELSE NULL_PTR

registry_free_stale(reg) == reg

registry_free_keeps_buckets(reg) == reg

(* Every chain entry and its key are freed and every bucket is set to NULL: *)
(* nothing is reachable through the table afterwards.                       *)
registry_free(reg) == EmptyRegistry

(* An entry value is one malloc'ed block; `frees' counts the times the     *)
(* block has been passed to free.  free_values is the loop of              *)
(* registry_cleanup that frees entry->value along every bucket chain.      *)
free_values(reg) == [k \in DOMAIN reg |-> [reg[k] EXCEPT !.frees = @ + 1]]

MostFrees(reg) ==
    IF DOMAIN reg = {} THEN 0
    ELSE CHOOSE n \in {reg[k].frees : k \in DOMAIN reg} :
             \A k \in DOMAIN reg : reg[k].frees <= n

Max(a, b) == IF a >= b THEN a ELSE b

-----------------------------------------------------------------------------
(* Layer registry *)

register_layer(reg, name, create_fn, forward_fn) ==
    registry_set(reg, name, [create_fn |-> create_fn, forward_fn |-> forward_fn, frees |-> 0])

get_layer_create_fn(name) ==
    LET entry == registry_get(layer_registry, name)
    IN  IF entry # NULL_PTR THEN entry.create_fn ELSE NULL_FN

get_layer_forward_fn(name) ==
    LET entry == registry_get(layer_registry, name)
    IN  IF entry # NULL_PTR THEN entry.forward_fn ELSE NULL_FN

(* Operation registry (with backend priority) *)

register_operation_backend_ge(reg, name, op_fn, priority) ==
    LET existing == registry_get(reg, name)
    IN  IF existing = NULL_PTR \/ priority >= existing.priority
        THEN registry_set(reg, name, [op_fn |-> op_fn, priority |-> priority, frees |-> 0])
        ELSE reg

register_operation_backend(reg, name, op_fn, priority) ==
    LET existing == registry_get(reg, name)
    IN  IF existing = NULL_PTR \/ priority > existing.priority
        THEN registry_set(reg, name, [op_fn |-> op_fn, priority |-> priority, frees |-> 0])
        ELSE reg

register_operation(reg, name, op_fn) ==
    register_operation_backend(reg, name, op_fn, CPU_PRIORITY)

get_operation_fn(name) ==
    LET entry == registry_get(operation_registry, name)
    IN  IF entry # NULL_PTR THEN entry.op_fn ELSE NULL_FN

(* Loss functions are kept in the operation registry (registry.h aliases) *)

register_loss(reg, name, loss_fn) == register_operation(reg, name, loss_fn)

get_loss_fn(name) == get_operation_fn(name)

(* Tensor operation registry (gradient rules) *)

register_tensor_op(reg, name, backward_fn) ==
    registry_set(reg, name, [backward_fn |-> backward_fn])

get_tensor_op_backward_fn(name) ==
    LET entry == registry_get(tensor_op_registry, name)
    IN  IF entry # NULL_PTR THEN entry.backward_fn ELSE NULL_FN

(* Optimizer registry *)

register_optimizer(reg, name, init_state_fn, step_fn, free_state_fn) ==
    registry_set(reg, name, [init_state_fn |-> init_state_fn, step_fn |-> step_fn,
                             free_state_fn |-> free_state_fn, frees |-> 0])

get_optimizer_init_state_fn(name) ==
    LET entry == registry_get(optimizer_registry, name)
    IN  IF entry # NULL_PTR THEN entry.init_state_fn ELSE NULL_FN

get_optimizer_step_fn(name) ==
    LET entry == registry_get(optimizer_registry, name)
    IN  IF entry # NULL_PTR THEN entry.step_fn ELSE NULL_FN

get_optimizer_free_state_fn(name) ==
    LET entry == registry_get(optimizer_registry, name)
    IN  IF entry # NULL_PTR THEN entry.free_state_fn ELSE NULL_FN


-----------------------------------------------------------------------------
(* WebGPU session (webgpu_backend.c).  The build with HAS_WEBGPU defined    *)
(* is the one modelled.                                                     *)

Handle(kind, gen) == [kind |-> kind, gen |-> gen]

NoContext == [instance |-> NULL_PTR, adapter |-> NULL_PTR, device |-> NULL_PTR,
              queue |-> NULL_PTR, initialized |-> 0]

(* fireAt is the number of wgpuInstanceProcessEvents calls after which the  *)
(* completion callback has run: 0 when it runs inside the request itself    *)
(* (WGPUCallbackMode_AllowSpontaneous), budget + 1 when it does not run     *)
(* within the budget.                                                       *)
FireChoices(budget) == {0, budget, budget + 1}

(* while (!data.done && timeout < budget) { ProcessEvents; timeout++; }     *)
(* The value of the counter when the loop is left.                          *)
PollIterations(fireAt, budget) ==
    IF fireAt <= budget THEN fireAt ELSE budget

(* if (timeout >= budget) { "Timeout waiting ..." } *)
PollTimedOut(fireAt, budget) == PollIterations(fireAt, budget) >= budget

TimeoutFires(budget) == {f \in FireChoices(budget) : PollTimedOut(f, budget)}
InTimeFires(budget) == FireChoices(budget) \ TimeoutFires(budget)

(* What the device library does during one webgpu_init call: whether each  *)
(* object is obtained (inst, a1ok, a2ok, dok, queue) and in which poll     *)
(* iteration each request completes (a1fire, a2fire, dfire).  A field the  *)
(* call never consults is held at FALSE or 0.                              *)
Env(inst, a1fire, a1ok, a2fire, a2ok, dfire, dok, queue) ==
    [inst |-> inst, a1fire |-> a1fire, a1ok |-> a1ok, a2fire |-> a2fire, a2ok |-> a2ok,
     dfire |-> dfire, dok |-> dok, queue |-> queue]

(* The adapter is obtained by the first or by the second request. *)
AdapterObtained ==
    {<<f1, TRUE, 0, FALSE>> : f1 \in InTimeFires(ADAPTER_POLL_BUDGET)}
    \cup {<<f1, FALSE, f2, TRUE>> : f1 \in InTimeFires(ADAPTER_POLL_BUDGET),
                                    f2 \in InTimeFires(ADAPTER_POLL_BUDGET)}

AdapterMissed ==
    {<<f1, FALSE, 0, FALSE>> : f1 \in TimeoutFires(ADAPTER_POLL_BUDGET)}
    \cup {<<f1, FALSE, f2, FALSE>> : f1 \in InTimeFires(ADAPTER_POLL_BUDGET),
                                     f2 \in FireChoices(ADAPTER_POLL_BUDGET)}

DeviceOutcomes ==
    {<<f, FALSE, FALSE>> : f \in FireChoices(DEVICE_POLL_BUDGET)}
    \cup {<<f, TRUE, q>> : f \in InTimeFires(DEVICE_POLL_BUDGET), q \in BOOLEAN}

InitEnv ==
    {Env(FALSE, 0, FALSE, 0, FALSE, 0, FALSE, FALSE)}
    \cup {Env(TRUE, a[1], a[2], a[3], a[4], 0, FALSE, FALSE) : a \in AdapterMissed}
    \cup {Env(TRUE, a[1], a[2], a[3], a[4], d[1], d[2], d[3]) :
             a \in AdapterObtained, d \in DeviceOutcomes}

InitResult(ctx, r, timedOut) == [ctx |-> ctx, ret |-> r, timedOut |-> timedOut]

(* webgpu_backend.c:121-122, 140-141, 147-148: release the instance *)
release_instance(ctx) == [ctx EXCEPT !.instance = NULL_PTR]

(* webgpu_backend.c:212-215, 221-224: release adapter and instance *)
release_adapter(ctx) == [ctx EXCEPT !.adapter = NULL_PTR, !.instance = NULL_PTR]

(* webgpu_backend.c:233-238: release device, adapter and instance *)
release_device_keeps_handles(ctx) == ctx

release_device(ctx) ==
    [ctx EXCEPT !.device = NULL_PTR, !.adapter = NULL_PTR, !.instance = NULL_PTR]

webgpu_init(ctx, e, gen) ==
    LET c1 == [ctx EXCEPT !.instance = IF e.inst THEN Handle("instance", gen) ELSE NULL_PTR]
        adapter1 == IF e.a1ok THEN Handle("adapter", gen) ELSE NULL_PTR
        adapter2 == IF e.a2ok THEN Handle("adapter", gen) ELSE NULL_PTR
        adapter  == IF adapter1 # NULL_PTR THEN adapter1 ELSE adapter2
        c2 == [c1 EXCEPT !.adapter = adapter]
        device == IF e.dok THEN Handle("device", gen) ELSE NULL_PTR
        c3 == [c2 EXCEPT !.device = device]
        c4 == [c3 EXCEPT !.queue = IF e.queue THEN Handle("queue", gen) ELSE NULL_PTR]
    IN  IF ctx.initialized # 0 THEN InitResult(ctx, 0, FALSE)
        ELSE IF c1.instance = NULL_PTR THEN InitResult(c1, -1, FALSE)
        ELSE IF PollTimedOut(e.a1fire, ADAPTER_POLL_BUDGET)
             THEN InitResult(release_instance(c1), -1, TRUE)
        ELSE IF adapter1 = NULL_PTR /\ PollTimedOut(e.a2fire, ADAPTER_POLL_BUDGET)
             THEN InitResult(release_instance(c1), -1, TRUE)
        ELSE IF adapter = NULL_PTR THEN InitResult(release_instance(c1), -1, FALSE)
        ELSE IF PollTimedOut(e.dfire, DEVICE_POLL_BUDGET)
             THEN InitResult(release_adapter(c2), -1, TRUE)
        ELSE IF device = NULL_PTR THEN InitResult(release_adapter(c2), -1, FALSE)
        ELSE IF c4.queue = NULL_PTR THEN InitResult(release_device(c4), -1, FALSE)
        ELSE InitResult([c4 EXCEPT !.initialized = 1], 0, FALSE)

webgpu_cleanup(ctx) ==
    [instance |-> NULL_PTR, adapter |-> NULL_PTR, device |-> NULL_PTR, queue |-> NULL_PTR,
     initialized |-> 0]

webgpu_available(ctx) == ctx.initialized

(* Backend registration *)

WebgpuFn == [add |-> "webgpu_tensor_add", sub |-> "webgpu_tensor_sub",
             mul |-> "webgpu_tensor_mul", matmul |-> "webgpu_tensor_matmul",
             relu |-> "webgpu_tensor_relu", sigmoid |-> "webgpu_tensor_sigmoid",
             tanh |-> "webgpu_tensor_tanh", softmax |-> "webgpu_tensor_softmax"]

WebgpuFns == {WebgpuFn[n] : n \in AccelOps}

WebgpuOpOrder == <<"add", "sub", "mul", "matmul", "relu", "sigmoid", "tanh", "softmax">>

RegCall(name, op_fn, priority) == [name |-> name, op_fn |-> op_fn, priority |-> priority]

WebgpuRegCalls == [i \in 1..Len(WebgpuOpOrder) |->
                      RegCall(WebgpuOpOrder[i], WebgpuFn[WebgpuOpOrder[i]], WEBGPU_PRIORITY)]

RECURSIVE ApplyRegCalls(_, _)
ApplyRegCalls(reg, calls) ==
    IF calls = <<>> THEN reg
    ELSE ApplyRegCalls(register_operation_backend(reg, Head(calls).name, Head(calls).op_fn,
                                                  Head(calls).priority), Tail(calls))

(* The register_operation_backend calls webgpu_register_ops makes. *)
webgpu_register_ops_unguarded(ctx) == WebgpuRegCalls

webgpu_register_ops(ctx) ==
    IF webgpu_available(ctx) = 0 THEN <<>> ELSE WebgpuRegCalls

(* backend_init_all: the outcome of webgpu_init and the registrations made. *)
backend_init_all(ctx, e, gen) ==
    LET r == webgpu_init(ctx, e, gen)
    IN  [init |-> r, calls |-> IF r.ret = 0 THEN webgpu_register_ops(r.ctx) ELSE <<>>]

-----------------------------------------------------------------------------
(* Registry initialisation and cleanup (part_007:413-481) *)

LayerRegCalls ==
    << <<"linear", "linear_create", "linear_forward">>,
       <<"relu", "activation_create", "relu_forward">>,
       <<"sigmoid", "activation_create", "sigmoid_forward">>,
       <<"tanh", "activation_create", "tanh_forward">>,
       <<"softmax", "activation_create", "softmax_forward">> >>

LossRegCalls ==
    << RegCall("mse", "tensor_mse", CPU_PRIORITY),
       RegCall("cross_entropy", "tensor_cross_entropy", CPU_PRIORITY),
       RegCall("binary_cross_entropy", "tensor_binary_cross_entropy", CPU_PRIORITY) >>

TensorOpRegCalls ==
    << <<"add", "backward_add">>, <<"sub", "backward_sub">>, <<"mul", "backward_mul">>,
       <<"matmul", "backward_matmul">>, <<"transpose2d", "backward_transpose2d">>,
       <<"relu", "backward_relu">>, <<"sigmoid", "backward_sigmoid">>,
       <<"tanh", "backward_tanh">>, <<"softmax", "backward_softmax">>,
       <<"mse", "backward_mse">>, <<"cross_entropy", "backward_cross_entropy">>,
       <<"binary_cross_entropy", "backward_binary_cross_entropy">> >>

OptimizerRegCalls ==
    << <<"sgd", "sgd_init_state", "sgd_step", "sgd_free_state">>,
       <<"adam", "adam_init_state", "adam_step", "adam_free_state">> >>

RECURSIVE ApplyLayerCalls(_, _)
ApplyLayerCalls(reg, calls) ==
    IF calls = <<>> THEN reg
    ELSE ApplyLayerCalls(register_layer(reg, Head(calls)[1], Head(calls)[2], Head(calls)[3]),
                         Tail(calls))

RECURSIVE ApplyTensorOpCalls(_, _)
ApplyTensorOpCalls(reg, calls) ==
    IF calls = <<>> THEN reg
    ELSE ApplyTensorOpCalls(register_tensor_op(reg, Head(calls)[1], Head(calls)[2]), Tail(calls))

RECURSIVE ApplyOptimizerCalls(_, _)
ApplyOptimizerCalls(reg, calls) ==
    IF calls = <<>> THEN reg
    ELSE ApplyOptimizerCalls(register_optimizer(reg, Head(calls)[1], Head(calls)[2],
                                                Head(calls)[3], Head(calls)[4]), Tail(calls))

-----------------------------------------------------------------------------
(* Values returned to the caller *)

FnRet(f) == [kind |-> "fn", fn |-> f]
NullRet == [kind |-> "null"]
NoRet == [kind |-> "none"]

Call(fn, name, args, allocs) == [fn |-> fn, name |-> name, args |-> args, allocs |-> allocs]
NoCall == Call("none", "", <<>>, 0)

NoDev == [buffers |-> 0, submits |-> 0, readyAtEntry |-> FALSE, mapTimedOut |-> FALSE]

NoPoll == [pc |-> "idle", kind |-> "none", t |-> 0, done |-> 0, fireAt |-> 0, budget |-> 0,
           events |-> 0, timedOut |-> FALSE]

NoneRegistered == [layer |-> {}, tensor_op |-> {}, optimizer |-> {}, before |-> {}]

-----------------------------------------------------------------------------
(* Tensors.  A tensor is its shape, its autograd fields and the origin of   *)
(* its data: "client" (filled by the caller), "created" (as tensor_create   *)
(* left it) or "device" (copied from the mapped staging buffer).            *)

tensor_create(shape) ==
    [shape |-> shape, requires_grad |-> 0, op_name |-> NULL_FN, inputs |-> <<>>,
     backward_fn |-> NULL_FN, data |-> "created"]

ClientTensor(shape, requires_grad) ==
    [tensor_create(shape) EXCEPT !.requires_grad = requires_grad, !.data = "client"]

Operands ==
    {ClientTensor(<<2, 3>>, 0), ClientTensor(<<2, 3>>, 1), ClientTensor(<<3, 2>>, 0),
     ClientTensor(<<3>>, 0), NULL_PTR}

PublicFn == [add |-> "tensor_add", sub |-> "tensor_sub", mul |-> "tensor_mul",
             matmul |-> "tensor_matmul", relu |-> "tensor_relu",
             sigmoid |-> "tensor_sigmoid", tanh |-> "tensor_tanh",
             softmax |-> "tensor_softmax"]

PublicFns == {PublicFn[n] : n \in AccelOps}

CpuFn == [add |-> "tensor_add_cpu", sub |-> "tensor_sub_cpu", mul |-> "tensor_mul_cpu",
          matmul |-> "tensor_matmul_cpu", relu |-> "tensor_relu_cpu",
          sigmoid |-> "tensor_sigmoid_cpu", tanh |-> "tensor_tanh_cpu",
          softmax |-> "tensor_softmax_cpu"]

BackwardFn == [add |-> "backward_add", sub |-> "backward_sub", mul |-> "backward_mul",
               matmul |-> "backward_matmul", relu |-> "backward_relu",
               sigmoid |-> "backward_sigmoid", tanh |-> "backward_tanh",
               softmax |-> "backward_softmax"]

(* What the reference implementation fn returns for the operands args. *)
CpuResult(fn, args) == [kind |-> "cpu", fn |-> fn, args |-> args]

(* Autograd metadata of an accelerator output (webgpu_ops.c:37-58) *)

setup_autograd_two_inputs_both(A, B, C, op_name, backward_fn) ==
    IF A.requires_grad # 0 /\ B.requires_grad # 0
    THEN [C EXCEPT !.requires_grad = 1, !.op_name = op_name, !.inputs = <<A, B>>,
                   !.backward_fn = backward_fn]
    ELSE C

setup_autograd_two_inputs(A, B, C, op_name, backward_fn) ==
    IF A.requires_grad # 0 \/ B.requires_grad # 0
    THEN [C EXCEPT !.requires_grad = 1, !.op_name = op_name, !.inputs = <<A, B>>,
                   !.backward_fn = backward_fn]
    ELSE C

setup_autograd_one_input(Z, A, op_name, backward_fn) ==
    IF Z.requires_grad # 0
    THEN [A EXCEPT !.requires_grad = 1, !.op_name = op_name, !.inputs = <<Z>>,
                   !.backward_fn = backward_fn]
    ELSE A

(* What the host and the device library do during one accelerated call:     *)
(* whether tensor_create succeeds, after how many poll iterations the map   *)
(* callback has run and whether the mapped range is obtained.               *)
OpEnv ==
    {[createOk |-> FALSE, mapFire |-> 0, mapped |-> FALSE]}
    \cup {[createOk |-> TRUE, mapFire |-> f, mapped |-> m] :
             f \in InTimeFires(MAP_POLL_BUDGET), m \in BOOLEAN}
    \cup {[createOk |-> TRUE, mapFire |-> MAP_POLL_BUDGET, mapped |-> TRUE],
          [createOk |-> TRUE, mapFire |-> MAP_POLL_BUDGET + 1, mapped |-> FALSE]}

(* webgpu_read_buffer: the destination tensor after the call *)
webgpu_read_buffer_ignores_timeout(T, e) ==
    IF e.mapped THEN [T EXCEPT !.data = "device"] ELSE T

webgpu_read_buffer(T, e) ==
    IF PollTimedOut(e.mapFire, MAP_POLL_BUDGET) THEN T
    ELSE IF e.mapped THEN [T EXCEPT !.data = "device"]
    ELSE T

(* The outcome of an accelerator function: it either passes the operands to *)
(* the fallback function fn, or returns value after creating the given      *)
(* number of device buffers and making the given number of queue submits.   *)
Fallback(fn) ==
    [tag |-> "fallback", fn |-> fn, value |-> NullRet, buffers |-> 0, submits |-> 0,
     mapTimedOut |-> FALSE]

Returns(value, buffers, submits, mapTimedOut) ==
    [tag |-> "return", fn |-> NULL_FN, value |-> value, buffers |-> buffers,
     submits |-> submits, mapTimedOut |-> mapTimedOut]

-----------------------------------------------------------------------------
(* Accelerated operations (webgpu_ops.c) *)

(* webgpu_ops.c:132-140: same rank and the same extent in every dimension *)
same_shape_rank_only(A, B) == Len(A.shape) = Len(B.shape)

same_shape(A, B) ==
    /\ Len(A.shape) = Len(B.shape)
    /\ \A i \in 1..Len(A.shape) : A.shape[i] = B.shape[i]

elementwise_binary_op(ctx, A, B, op_name, backward_fn, cpu_fallback, e) ==
    IF webgpu_available(ctx) = 0 \/ A = NULL_PTR \/ B = NULL_PTR THEN Fallback(cpu_fallback)
    ELSE IF ~same_shape(A, B) THEN Fallback(cpu_fallback)
    ELSE IF ~e.createOk THEN Returns(NullRet, 0, 0, FALSE)
    ELSE LET C == webgpu_read_buffer(tensor_create(A.shape), e)
         IN  Returns(setup_autograd_two_inputs(A, B, C, op_name, backward_fn), 4, 2,
                     PollTimedOut(e.mapFire, MAP_POLL_BUDGET))

webgpu_tensor_add(ctx, A, B, e) ==
    elementwise_binary_op(ctx, A, B, "add", "backward_add", "tensor_add_cpu", e)

webgpu_tensor_sub(ctx, A, B, e) ==
    elementwise_binary_op(ctx, A, B, "sub", "backward_sub", "tensor_sub_cpu", e)

webgpu_tensor_mul(ctx, A, B, e) ==
    elementwise_binary_op(ctx, A, B, "mul", "backward_mul", "tensor_mul_cpu", e)

webgpu_tensor_matmul(ctx, A, B, e) ==
    IF webgpu_available(ctx) = 0 \/ A = NULL_PTR \/ B = NULL_PTR
    THEN Fallback("tensor_matmul_cpu")
    ELSE IF Len(A.shape) # 2 \/ Len(B.shape) # 2 THEN Fallback("tensor_matmul_cpu")
    ELSE IF A.shape[2] # B.shape[1] THEN Fallback("tensor_matmul_cpu")
    ELSE IF ~e.createOk THEN Returns(NullRet, 0, 0, FALSE)
    ELSE LET C == webgpu_read_buffer(tensor_create(<<A.shape[1], B.shape[2]>>), e)
         IN  Returns(setup_autograd_two_inputs(A, B, C, "matmul", "backward_matmul"), 5, 2,
                     PollTimedOut(e.mapFire, MAP_POLL_BUDGET))

elementwise_unary_op(ctx, Z, op_name, backward_fn, cpu_fallback, e) ==
    IF webgpu_available(ctx) = 0 \/ Z = NULL_PTR THEN Fallback(cpu_fallback)
    ELSE IF ~e.createOk THEN Returns(NullRet, 0, 0, FALSE)
    ELSE LET A == webgpu_read_buffer(tensor_create(Z.shape), e)
         IN  Returns(setup_autograd_one_input(Z, A, op_name, backward_fn), 3, 2,
                     PollTimedOut(e.mapFire, MAP_POLL_BUDGET))

webgpu_tensor_relu(ctx, Z, e) ==
    elementwise_unary_op(ctx, Z, "relu", "backward_relu", "tensor_relu", e)

webgpu_tensor_sigmoid(ctx, Z, e) ==
    elementwise_unary_op(ctx, Z, "sigmoid", "backward_sigmoid", "tensor_sigmoid", e)

webgpu_tensor_tanh(ctx, Z, e) ==
    elementwise_unary_op(ctx, Z, "tanh", "backward_tanh", "tensor_tanh", e)

webgpu_tensor_softmax(ctx, Z, e) ==
    IF webgpu_available(ctx) = 0 \/ Z = NULL_PTR THEN Fallback("tensor_softmax_cpu")
    ELSE IF Len(Z.shape) < 2 THEN Fallback("tensor_softmax_cpu")
    ELSE IF ~e.createOk THEN Returns(NullRet, 0, 0, FALSE)
    ELSE LET A == webgpu_read_buffer(tensor_create(Z.shape), e)
         IN  Returns(setup_autograd_one_input(Z, A, "softmax", "backward_softmax"), 4, 2,
                     PollTimedOut(e.mapFire, MAP_POLL_BUDGET))

(* The call through the OpFn pointer stored in the operation registry. *)
WebgpuCall(fn, ctx, args, e) ==
    CASE fn = "webgpu_tensor_add" -> webgpu_tensor_add(ctx, args[1], args[2], e)
      [] fn = "webgpu_tensor_sub" -> webgpu_tensor_sub(ctx, args[1], args[2], e)
      [] fn = "webgpu_tensor_mul" -> webgpu_tensor_mul(ctx, args[1], args[2], e)
      [] fn = "webgpu_tensor_matmul" -> webgpu_tensor_matmul(ctx, args[1], args[2], e)
      [] fn = "webgpu_tensor_relu" -> webgpu_tensor_relu(ctx, args[1], e)
      [] fn = "webgpu_tensor_sigmoid" -> webgpu_tensor_sigmoid(ctx, args[1], e)
      [] fn = "webgpu_tensor_tanh" -> webgpu_tensor_tanh(ctx, args[1], e)
      [] fn = "webgpu_tensor_softmax" -> webgpu_tensor_softmax(ctx, args[1], e)

(* The device path of one accelerated call, device call by device call      *)
(* (webgpu_ops.c:142-243, 284-375, 388-460, 490-578), on a Ready session.   *)

MaxCalls == 2
MaxFailures == 1
MAX_PIPELINES == 16

DeviceOps == {"add", "matmul", "relu", "softmax"}

Instr(api, obj, uses) == [api |-> api, obj |-> obj, uses |-> uses]

SeqToSet(s) == {s[i] : i \in 1..Len(s)}

(* The data buffers, output buffer and uniform buffer of an operation, in *)
(* the order the function creates them.                                   *)
DataBuffers(op) == IF op \in BinaryOps THEN <<"buffer_a", "buffer_b">> ELSE <<"buffer_in">>
OutputBuffer(op) == IF op \in BinaryOps THEN "buffer_c" ELSE "buffer_out"
UniformBuffers(op) == IF op \in {"matmul", "softmax"} THEN <<"uniform">> ELSE <<>>
Buffers(op) == DataBuffers(op) \o <<OutputBuffer(op)>> \o UniformBuffers(op)
Uploads_data_only(op) == DataBuffers(op)
Uploads(op) == DataBuffers(op) \o UniformBuffers(op)

(* The statements of the function after tensor_create, in source order. *)
(* The cleanup of a device path: webgpu_ops.c:228-238, 360-371, 447-456, *)
(* 564-574.  The pipeline stays in the cache.                            *)
Releases_keeps_staging(op) ==
    <<"copy_commands", "copy_encoder", "commands", "pass", "encoder", "bind_group",
      "bind_group_layout">> \o Buffers(op)

Releases(op) ==
    <<"copy_commands", "copy_encoder", "staging", "commands", "pass", "encoder",
      "bind_group", "bind_group_layout">> \o Buffers(op)

Program(op) ==
    [i \in 1..Len(Buffers(op)) |-> Instr("webgpu_create_buffer", Buffers(op)[i], {})]
    \o [i \in 1..Len(Uploads(op)) |->
            Instr("webgpu_write_buffer", Uploads(op)[i], {Uploads(op)[i]})]
    \o << Instr("wgpuDeviceCreateBindGroupLayout", "bind_group_layout", {}),
          Instr("get_or_create_pipeline", "pipeline", {"bind_group_layout"}),
          Instr("wgpuDeviceCreateBindGroup", "bind_group",
                {"bind_group_layout"} \cup SeqToSet(Buffers(op))),
          Instr("wgpuDeviceCreateCommandEncoder", "encoder", {}),
          Instr("wgpuCommandEncoderBeginComputePass", "pass", {"encoder"}),
          Instr("wgpuComputePassEncoderSetPipeline", "pass", {"pass", "pipeline"}),
          Instr("wgpuComputePassEncoderSetBindGroup", "pass", {"pass", "bind_group"}),
          Instr("wgpuComputePassEncoderDispatchWorkgroups", "pass", {"pass"}),
          Instr("wgpuComputePassEncoderEnd", "pass", {"pass"}),
          Instr("wgpuCommandEncoderFinish", "commands", {"encoder"}),
          Instr("wgpuQueueSubmit", "commands", {"commands"}),
          Instr("webgpu_create_buffer", "staging", {}),
          Instr("wgpuDeviceCreateCommandEncoder", "copy_encoder", {}),
          Instr("wgpuCommandEncoderCopyBufferToBuffer", "copy_encoder",
                {"copy_encoder", OutputBuffer(op), "staging"}),
          Instr("wgpuCommandEncoderFinish", "copy_commands", {"copy_encoder"}),
          Instr("wgpuQueueSubmit", "copy_commands", {"copy_commands"}),
          Instr("webgpu_read_buffer", "staging", {"staging"}) >>
    \o [i \in 1..Len(Releases(op)) |-> Instr("release", Releases(op)[i], {Releases(op)[i]})]
    \o << Instr("return", "output", {}) >>

DeviceObjects == {"buffer_a", "buffer_b", "buffer_c", "buffer_in", "buffer_out", "uniform",
                  "bind_group_layout", "pipeline", "bind_group", "encoder", "pass",
                  "commands", "staging", "copy_encoder", "copy_commands"}

CreateApis == {"webgpu_create_buffer", "wgpuDeviceCreateBindGroupLayout",
               "wgpuDeviceCreateBindGroup", "wgpuDeviceCreateCommandEncoder",
               "wgpuCommandEncoderBeginComputePass", "wgpuCommandEncoderFinish"}

(* webgpu_write_buffer and webgpu_read_buffer return at once on a NULL buffer *)
GuardedApis == {"webgpu_write_buffer", "webgpu_read_buffer"}

NoObjects == [o \in DeviceObjects |-> "none"]

NoGpu == [status |-> "idle", op |-> "", pc |-> 0, objs |-> NoObjects, trace |-> <<>>,
          failures |-> 0, failed |-> FALSE, cache |-> <<>>, compiles |-> <<>>,
          calls |-> 0, output |-> "none"]

Event(ins, outcome, usesNull) ==
    [api |-> ins.api, obj |-> ins.obj, outcome |-> outcome, usesNull |-> usesNull]

(* get_or_create_pipeline: the index of the cache entry of a name, 0 if none *)
CacheIndex(cache, name) ==
    IF \E i \in 1..Len(cache) : cache[i].name = name
    THEN CHOOSE i \in 1..Len(cache) :
             cache[i].name = name /\ \A j \in 1..(i - 1) : cache[j].name # name
    ELSE 0

(* webgpu_ops.c:107-108: the entry written for a pipeline, which was created *)
(* on the device webgpu_get_device() returned (line 101).                   *)
CacheEntry(name, pipeline) ==
    [name |-> name, pipeline |-> pipeline, device |-> g_webgpu_ctx.device]

(* webgpu_ops.c:82-112, without the cache lookup of lines 76-80 *)
get_or_create_pipeline_uncached(cache, name, shaderOk, pipelineOk) ==
    IF ~shaderOk
    THEN [pipeline |-> "null", cache |-> cache, outcome |-> "null", compiled |-> FALSE]
    ELSE LET pipeline == IF pipelineOk THEN "live" ELSE "null"
         IN  [pipeline |-> pipeline,
              cache |-> IF Len(cache) < MAX_PIPELINES
                        THEN Append(cache, CacheEntry(name, pipeline))
                        ELSE cache,
              outcome |-> IF pipelineOk THEN "ok" ELSE "null",
              compiled |-> TRUE]

(* webgpu_ops.c:73-113.  shaderOk and pipelineOk: whether the shader module *)
(* and the pipeline were created.  Returns the pipeline and the cache;      *)
(* `compiled' tells that wgpuDeviceCreateComputePipeline was called.        *)
get_or_create_pipeline(cache, name, shaderOk, pipelineOk) ==
    LET i == CacheIndex(cache, name)
    IN  IF i # 0
        THEN [pipeline |-> cache[i].pipeline, cache |-> cache, outcome |-> "hit",
              compiled |-> FALSE]
        ELSE IF ~shaderOk
        THEN [pipeline |-> "null", cache |-> cache, outcome |-> "null", compiled |-> FALSE]
        ELSE LET pipeline == IF pipelineOk THEN "live" ELSE "null"
             IN  [pipeline |-> pipeline,
                  cache |-> IF Len(cache) < MAX_PIPELINES
                            THEN Append(cache, CacheEntry(name, pipeline))
                            ELSE cache,
                  outcome |-> IF pipelineOk THEN "ok" ELSE "null",
                  compiled |-> TRUE]

(* webgpu_backend.c:330-362 on a non-NULL staging buffer *)
ReadbackOutcomes == {"copied", "timeout", "unmapped"}

(* No webgpu_init or webgpu_cleanup call has been followed statement by *)
(* statement.                                                           *)
NoSession == [call |-> "none", entry |-> NoContext, acquired |-> {}, releases |-> <<>>,
              released |-> <<>>, pending |-> {}, late |-> {},
              pipeline |-> [name |-> "", device |-> NULL_PTR, compiled |-> FALSE]]

(* No compute shader has been dispatched. *)
NoKernel == [op |-> "none"]

(* No graph node is under a gradient rule. *)
NoNode == [rule |-> "none", fexpr |-> [p |-> <<>>, t |-> <<>>], trace |-> <<>>]

ArgsFor(op) ==
    IF op \in BinaryOps THEN {<<A, B>> : A \in Operands, B \in Operands}
    ELSE {<<Z>> : Z \in Operands}

InitRegistries ==
    /\ layer_registry = EmptyRegistry
    /\ operation_registry = EmptyRegistry
    /\ tensor_op_registry = EmptyRegistry
    /\ optimizer_registry = EmptyRegistry
    /\ opHistory = <<>>
    /\ registered = NoneRegistered
    /\ userRegs = 0
    /\ maxFrees = 0
    /\ call = NoCall
    /\ stack = <<>>
    /\ ret = NoRet
    /\ dev = NoDev
    /\ poll = NoPoll

InitSession ==
    /\ g_webgpu_ctx = NoContext
    /\ lastInit = [called |-> FALSE, ret |-> 0, timedOut |-> FALSE]
    /\ initAttempts = 0
    /\ everFailed = FALSE

InitProgram == InitRegistries /\ InitSession

Init == InitProgram /\ node = NoNode /\ gpu = NoGpu /\ session = NoSession /\ kernel = NoKernel

Idle == stack = <<>> /\ call = NoCall /\ poll.pc = "idle"

(* The record of the previous lookup or tensor operation is dropped. *)
ResetCall == call' = NoCall /\ ret' = NoRet /\ dev' = NoDev

(* A webgpu_init call may start an acquisition attempt only while the model's *)
(* budget of attempts lasts; on a Ready session it returns at once.          *)
MayInit == g_webgpu_ctx.initialized # 0 \/ initAttempts < MaxInitAttempts

SessionAfterInit(r) ==
    /\ g_webgpu_ctx' = r.ctx
    /\ lastInit' = [called |-> TRUE, ret |-> r.ret, timedOut |-> r.timedOut]
    /\ initAttempts' = IF g_webgpu_ctx.initialized # 0 THEN initAttempts ELSE initAttempts + 1
    /\ everFailed' = (everFailed \/ r.ret = -1)

(* int webgpu_init(void) *)
WebgpuInit ==
    /\ Idle /\ MayInit
    /\ \E e \in InitEnv :
         LET r == webgpu_init(g_webgpu_ctx, e, initAttempts + 1)
         IN  SessionAfterInit(r)
    /\ ResetCall
    /\ UNCHANGED <<node, gpu, session, kernel, maxFrees, regVars, userRegs, stack, poll>>

(* void webgpu_cleanup(void) *)
WebgpuCleanup ==
    /\ Idle
    /\ g_webgpu_ctx' = webgpu_cleanup(g_webgpu_ctx)
    /\ ResetCall
    /\ UNCHANGED <<node, gpu, session, kernel, maxFrees, regVars, lastInit, initAttempts, everFailed, userRegs, stack, poll>>

(* void webgpu_register_ops(void), called by the client *)
WebgpuRegisterOps ==
    /\ Idle
    /\ LET calls == webgpu_register_ops(g_webgpu_ctx)
       IN  /\ Len(opHistory) + Len(calls) <= MaxHistory
           /\ operation_registry' = ApplyRegCalls(operation_registry, calls)
           /\ opHistory' = opHistory \o calls
    /\ ResetCall
    /\ UNCHANGED <<node, gpu, session, kernel, maxFrees, layer_registry, tensor_op_registry, optimizer_registry, registered,
                   sessionVars, userRegs, stack, poll>>

(* void registry_init() *)
RegistryInit ==
    /\ Idle /\ MayInit
    /\ \E e \in InitEnv :
         LET b == backend_init_all(g_webgpu_ctx, e, initAttempts + 1)
             calls == LossRegCalls \o b.calls
         IN  /\ Len(opHistory) + Len(calls) <= MaxHistory
             /\ SessionAfterInit(b.init)
             /\ operation_registry' = ApplyRegCalls(operation_registry, calls)
             /\ opHistory' = opHistory \o calls
    /\ layer_registry' = ApplyLayerCalls(layer_registry, LayerRegCalls)
    /\ tensor_op_registry' = ApplyTensorOpCalls(tensor_op_registry, TensorOpRegCalls)
    /\ optimizer_registry' = ApplyOptimizerCalls(optimizer_registry, OptimizerRegCalls)
    /\ registered' = [registered EXCEPT !.layer = @ \cup LayerNames,
                                        !.tensor_op = @ \cup TensorOpNames,
                                        !.optimizer = @ \cup OptimizerNames]
    /\ ResetCall
    /\ UNCHANGED <<node, gpu, session, kernel, maxFrees, userRegs, stack, poll>>

(* void registry_cleanup() *)
RegistryCleanup ==
    /\ Idle
    /\ LET layers == free_values(layer_registry)
           operations == free_values(operation_registry)
           optimizers == free_values(optimizer_registry)
       IN  /\ layer_registry' = registry_free(layers)
           /\ operation_registry' = registry_free(operations)
           /\ optimizer_registry' = registry_free(optimizers)
           /\ maxFrees' = Max(maxFrees, Max(MostFrees(layers),
                                            Max(MostFrees(operations), MostFrees(optimizers))))
    /\ tensor_op_registry' = registry_free(tensor_op_registry)
    /\ opHistory' = <<>>
    /\ registered' = [NoneRegistered EXCEPT !.before =
                          registered.before \cup registered.layer \cup registered.tensor_op
                              \cup registered.optimizer
                              \cup {opHistory[i].name : i \in 1..Len(opHistory)}]
    /\ ResetCall
    /\ UNCHANGED <<node, gpu, session, kernel, sessionVars, userRegs, stack, poll>>

(* void register_operation_backend(name, op_fn, priority), called by the client *)
(* with a function of its own; every call registers a different function.      *)
UserFns == <<"user_fn_1", "user_fn_2", "user_fn_3", "user_fn_4", "user_fn_5", "user_fn_6">>
UserRegNames == {"add"}
UserPriorities == {0, 5, 10}

RegisterOperationBackend ==
    /\ Idle
    /\ userRegs < MaxUserRegs
    /\ Len(opHistory) < MaxHistory
    /\ \E name \in UserRegNames, priority \in UserPriorities :
         LET op_fn == UserFns[userRegs + 1]
         IN  /\ operation_registry' =
                    register_operation_backend(operation_registry, name, op_fn, priority)
             /\ opHistory' = Append(opHistory, RegCall(name, op_fn, priority))
    /\ userRegs' = userRegs + 1
    /\ ResetCall
    /\ UNCHANGED <<node, gpu, session, kernel, maxFrees, layer_registry, tensor_op_registry, optimizer_registry, registered,
                   sessionVars, stack, poll>>

(* void register_tensor_op(name, backward_fn), called by the client with a *)
(* gradient rule of its own.                                               *)
UserBackwardFn == "user_backward"
UserTensorOpNames == {"add"}

RegisterTensorOp ==
    /\ Idle
    /\ \E name \in UserTensorOpNames :
         /\ get_tensor_op_backward_fn(name) # UserBackwardFn
         /\ tensor_op_registry' = register_tensor_op(tensor_op_registry, name, UserBackwardFn)
         /\ registered' = [registered EXCEPT !.tensor_op = @ \cup {name}]
    /\ ResetCall
    /\ UNCHANGED <<node, gpu, session, kernel, maxFrees, layer_registry, operation_registry, optimizer_registry, opHistory,
                   sessionVars, userRegs, stack, poll>>

NextRegistry ==
    \/ RegistryInit
    \/ RegistryCleanup
    \/ WebgpuInit
    \/ WebgpuCleanup
    \/ WebgpuRegisterOps
    \/ RegisterOperationBackend

SpecRegistry == Init /\ [][NextRegistry]_vars

-----------------------------------------------------------------------------
(* Lookups and constructors that go through the registries *)

Getters == {"get_layer_create_fn", "get_layer_forward_fn", "get_operation_fn", "get_loss_fn",
            "get_tensor_op_backward_fn", "get_optimizer_init_state_fn",
            "get_optimizer_step_fn", "get_optimizer_free_state_fn"}

LookupNames == {"linear", "relu", "add", "mse", "sgd", "nonexistent"}

GetterCall(getter, name) ==
    CASE getter = "get_layer_create_fn" -> get_layer_create_fn(name)
      [] getter = "get_layer_forward_fn" -> get_layer_forward_fn(name)
      [] getter = "get_operation_fn" -> get_operation_fn(name)
      [] getter = "get_loss_fn" -> get_loss_fn(name)
      [] getter = "get_tensor_op_backward_fn" -> get_tensor_op_backward_fn(name)
      [] getter = "get_optimizer_init_state_fn" -> get_optimizer_init_state_fn(name)
      [] getter = "get_optimizer_step_fn" -> get_optimizer_step_fn(name)
      [] getter = "get_optimizer_free_state_fn" -> get_optimizer_free_state_fn(name)

Created(value, allocs) == [value |-> value, allocs |-> allocs]

(* part_007:203-245: the objects linear_create and activation_create allocate *)
linear_create(name) ==
    Created([kind |-> "layer", name |-> name, forward |-> "linear_forward",
             num_parameters |-> 2], 6)

activation_create(name) ==
    Created([kind |-> "layer", name |-> name, forward |-> get_layer_forward_fn(name),
             num_parameters |-> 0], 2)

layer_create(name) ==
    LET create_fn == get_layer_create_fn(name)
    IN  IF create_fn = NULL_FN THEN Created(NullRet, 0)
        ELSE IF create_fn = "linear_create" THEN linear_create(name)
        ELSE activation_create(name)

optimizer_create(parameters, num_parameters, name, mallocOk, stateOk) ==
    LET init_fn == get_optimizer_init_state_fn(name)
        step_fn == get_optimizer_step_fn(name)
        free_fn == get_optimizer_free_state_fn(name)
    IN  IF parameters = NULL_PTR \/ num_parameters = 0 THEN Created(NullRet, 0)
        ELSE IF init_fn = NULL_FN \/ step_fn = NULL_FN \/ free_fn = NULL_FN
             THEN Created(NullRet, 0)
        ELSE IF ~mallocOk THEN Created(NullRet, 0)
        ELSE IF ~stateOk THEN Created(NullRet, 0)
        ELSE Created([kind |-> "optimizer", name |-> name, step |-> step_fn,
                      free_state |-> free_fn, num_parameters |-> num_parameters], 3)

Lookup ==
    /\ Idle
    /\ \E getter \in Getters, name \in LookupNames :
         /\ call' = Call(getter, name, <<>>, 0)
         /\ ret' = FnRet(GetterCall(getter, name))
    /\ UNCHANGED <<node, gpu, session, kernel, maxFrees, regVars, sessionVars, userRegs, stack, dev, poll>>

LayerCreate ==
    /\ Idle
    /\ \E name \in LookupNames :
         LET r == layer_create(name)
         IN  /\ call' = Call("layer_create", name, <<>>, r.allocs)
             /\ ret' = r.value
    /\ UNCHANGED <<node, gpu, session, kernel, maxFrees, regVars, sessionVars, userRegs, stack, dev, poll>>

ParameterArrays == {NULL_PTR, [null |-> FALSE]}

OptimizerCreate ==
    /\ Idle
    /\ \E name \in LookupNames, parameters \in ParameterArrays, num_parameters \in {0, 2},
          mallocOk \in BOOLEAN, stateOk \in BOOLEAN :
         LET r == optimizer_create(parameters, num_parameters, name, mallocOk, stateOk)
         IN  /\ call' = Call("optimizer_create", name, <<parameters, num_parameters>>, r.allocs)
             /\ ret' = r.value
    /\ UNCHANGED <<node, gpu, session, kernel, maxFrees, regVars, sessionVars, userRegs, stack, dev, poll>>

-----------------------------------------------------------------------------
(* A tensor operation call.  stack holds the functions entered and not yet  *)
(* returned from, the innermost last; every one of them passes the operands *)
(* on unchanged and returns what its callee returns.                        *)

Top == stack[Len(stack)]

(* The client calls the public function or the accelerator function itself. *)
CallTensorOp ==
    /\ Idle
    /\ \E op \in AccelOps, direct \in BOOLEAN :
         \E args \in ArgsFor(op) :
            LET fn == IF direct THEN WebgpuFn[op] ELSE PublicFn[op]
            IN  /\ call' = Call(fn, op, args, 0)
                /\ stack' = <<fn>>
    /\ ret' = NoRet
    /\ dev' = [NoDev EXCEPT !.readyAtEntry = (g_webgpu_ctx.initialized = 1)]
    /\ UNCHANGED <<node, gpu, session, kernel, maxFrees, regVars, sessionVars, userRegs, poll>>

(* The callee has returned through every frame. *)
Complete(value) == stack' = <<>> /\ ret' = value

(* tensor_<op>: DISPATCH_OP_1 / DISPATCH_OP_2 (part_000:47-53, 168-174):   *)
(* call the implementation get_operation_fn finds, or the reference        *)
(* implementation when none is registered.                                 *)
Dispatch ==
    /\ stack # <<>>
    /\ Top \in PublicFns
    /\ LET fn == get_operation_fn(call.name)
       IN  IF fn = NULL_FN
           THEN Complete(CpuResult(CpuFn[call.name], call.args))
           ELSE /\ Len(stack) < MaxDepth
                /\ stack' = Append(stack, fn)
                /\ ret' = ret
    /\ UNCHANGED <<node, gpu, session, kernel, maxFrees, regVars, sessionVars, userRegs, call, dev, poll>>

(* webgpu_tensor_<op> runs: it hands the operands to its fallback or        *)
(* computes on the device.                                                  *)
AccelStep ==
    /\ stack # <<>>
    /\ Top \in WebgpuFns
    /\ \E e \in OpEnv :
         LET o == WebgpuCall(Top, g_webgpu_ctx, call.args, e)
         IN  IF o.tag = "fallback"
             THEN /\ IF o.fn \in PublicFns
                     THEN /\ Len(stack) < MaxDepth
                          /\ stack' = Append(stack, o.fn)
                          /\ ret' = ret
                     ELSE Complete(CpuResult(o.fn, call.args))
                  /\ dev' = dev
             ELSE /\ Complete(o.value)
                  /\ dev' = [dev EXCEPT !.buffers = @ + o.buffers,
                                        !.submits = @ + o.submits,
                                        !.mapTimedOut = o.mapTimedOut]
    /\ UNCHANGED <<node, gpu, session, kernel, maxFrees, regVars, sessionVars, userRegs, call, poll>>

(* Layers the client holds, created by layer_create while the registry was *)
(* initialised (part_007:203-245), or no layer.                            *)
ForwardOf == [linear |-> "linear_forward", relu |-> "relu_forward",
              sigmoid |-> "sigmoid_forward", tanh |-> "tanh_forward",
              softmax |-> "softmax_forward"]

LayerObject(name) ==
    [kind |-> "layer", name |-> name, forward |-> ForwardOf[name],
     num_parameters |-> IF name = "linear" THEN 2 ELSE 0]

Layers == {NULL_PTR} \cup {LayerObject(name) : name \in LayerNames}

TailCall(fn) ==
    [tag |-> "call", fn |-> fn, value |-> NullRet, buffers |-> 0, submits |-> 0,
     mapTimedOut |-> FALSE]

(* part_007:247-252.  With an input, linear_forward runs tensor_matmul and *)
(* then tensor_add on its weights and bias.                                *)
linear_forward(self, input) ==
    IF self = NULL_PTR \/ input = NULL_PTR THEN Returns(NullRet, 0, 0, FALSE)
    ELSE TailCall("tensor_matmul")

(* part_007:254-268: return tensor_<name>(input); *)
activation_forward(self, input) == TailCall(PublicFn[self.name])

(* part_008:26-29 *)
layer_forward(layer, input) ==
    IF layer = NULL_PTR THEN Returns(NullRet, 0, 0, FALSE)
    ELSE IF layer.forward = NULL_FN THEN Returns(NullRet, 0, 0, FALSE)
    ELSE IF layer.forward = "linear_forward" THEN linear_forward(layer, input)
    ELSE activation_forward(layer, input)

(* The inputs handed to layer_forward: NULL or a tensor.  A linear layer is *)
(* called with NULL only: its two tensor operations on a tensor input are   *)
(* the calls CallTensorOp makes.                                            *)
LayerInputs(layer) ==
    IF layer # NULL_PTR /\ layer.name = "linear" THEN {NULL_PTR}
    ELSE {NULL_PTR, ClientTensor(<<2, 3>>, 0)}

LayerForward ==
    /\ Idle
    /\ \E layer \in Layers :
         \E input \in LayerInputs(layer) :
            LET o == layer_forward(layer, input)
            IN  /\ call' = Call("layer_forward",
                                IF layer = NULL_PTR THEN NULL_FN ELSE layer.name,
                                <<input>>, 0)
                /\ IF o.tag = "call"
                   THEN stack' = <<o.fn>> /\ ret' = NoRet
                   ELSE stack' = <<>> /\ ret' = o.value
    /\ dev' = [NoDev EXCEPT !.readyAtEntry = (g_webgpu_ctx.initialized = 1)]
    /\ UNCHANGED <<node, gpu, session, kernel, maxFrees, regVars, sessionVars, userRegs, poll>>

(* The caller takes the value returned to it. *)
Return ==
    /\ stack = <<>>
    /\ call # NoCall
    /\ ResetCall
    /\ UNCHANGED <<node, gpu, session, kernel, maxFrees, regVars, sessionVars, userRegs, stack, poll>>

Next ==
    \/ RegistryInit
    \/ RegistryCleanup
    \/ WebgpuInit
    \/ WebgpuCleanup
    \/ WebgpuRegisterOps
    \/ Lookup
    \/ LayerCreate
    \/ OptimizerCreate
    \/ CallTensorOp
    \/ Dispatch
    \/ AccelStep
    \/ Return
    \/ RegisterTensorOp
    \/ LayerForward

Spec == Init /\ [][Next]_vars

-----------------------------------------------------------------------------
(* Properties of lookups and tensor operation calls *)

IsOpCall == call.fn \in PublicFns \cup WebgpuFns

Returned == stack = <<>>

AccelFrames == {i \in 1..Len(stack) : stack[i] \in WebgpuFns}

OperationNamesRegistered == {opHistory[i].name : i \in 1..Len(opHistory)}

(* The names registered since the last registry_cleanup in the registry a *)
(* getter reads.                                                          *)
RegisteredFor(getter) ==
    CASE getter \in {"get_layer_create_fn", "get_layer_forward_fn"} -> registered.layer
      [] getter \in {"get_operation_fn", "get_loss_fn"} -> OperationNamesRegistered
      [] getter = "get_tensor_op_backward_fn" -> registered.tensor_op
      [] OTHER -> registered.optimizer

(* C2: a getter asked for a name that is not registered since the last      *)
(* registry_cleanup returns NULL, and layer_create and optimizer_create on  *)
(* such a name return NULL and leave nothing allocated.                     *)
C2_NotFound ==
    /\ call.fn \in Getters /\ call.name \notin RegisteredFor(call.fn)
           => ret = FnRet(NULL_FN)
    /\ call.fn = "layer_create" /\ call.name \notin registered.layer
           => ret = NullRet /\ call.allocs = 0
    /\ call.fn = "optimizer_create" /\ call.name \notin registered.optimizer
           => ret = NullRet /\ call.allocs = 0

(* layer_create("linear") returns NULL after the registration of "linear" *)
(* was dropped by registry_cleanup.                                       *)
C2_Witness ==
    /\ call.fn = "layer_create" /\ call.name = "linear"
    /\ "linear" \in registered.before /\ "linear" \notin registered.layer
    /\ ret = NullRet

(* C3: an accelerated operation creates device buffers or submits work only *)
(* when the session was Ready at the call; in every other session state the *)
(* accelerator function is entered at most once and the call returns the    *)
(* reference implementation's result.                                       *)
C3_NotReadyFallsBack ==
    IsOpCall =>
        /\ dev.buffers > 0 \/ dev.submits > 0 => dev.readyAtEntry
        /\ ~dev.readyAtEntry =>
               /\ Cardinality(AccelFrames) <= 1
               /\ Returned => ret = CpuResult(CpuFn[call.name], call.args)

DifferInRankOrDimension(A, B) ==
    \/ Len(A.shape) # Len(B.shape)
    \/ \E i \in 1..Len(A.shape) : i <= Len(B.shape) /\ A.shape[i] # B.shape[i]

NotMultipliable(A, B) ==
    IF Len(A.shape) = 2 /\ Len(B.shape) = 2 THEN A.shape[2] # B.shape[1] ELSE TRUE

IncompatibleOperands ==
    /\ call.name \in BinaryOps
    /\ call.args[1] # NULL_PTR /\ call.args[2] # NULL_PTR
    /\ IF call.name = "matmul" THEN NotMultipliable(call.args[1], call.args[2])
       ELSE DifferInRankOrDimension(call.args[1], call.args[2])

(* C4: with the session Ready and both operands non-NULL, an elementwise   *)
(* add/sub/mul on operands of different rank or extent, and a matmul on    *)
(* operands that are not both 2-D or whose inner dimensions differ,        *)
(* returns the reference implementation's result, creates no device buffer *)
(* and submits nothing.                                                    *)
C4_ShapeMismatchFallsBack ==
    IsOpCall /\ dev.readyAtEntry /\ IncompatibleOperands =>
        /\ dev.buffers = 0 /\ dev.submits = 0
        /\ Returned => ret = CpuResult(CpuFn[call.name], call.args)

(* The broadcast add [2,3] + [3] through the registered accelerator entry. *)
C4_Witness ==
    /\ call.fn = "tensor_add" /\ Returned /\ dev.readyAtEntry
    /\ get_operation_fn("add") = "webgpu_tensor_add"
    /\ call.args[1] # NULL_PTR /\ call.args[2] # NULL_PTR
    /\ call.args[1].shape = <<2, 3>> /\ call.args[2].shape = <<3>>
    /\ ret = CpuResult("tensor_add_cpu", call.args)

(* C5: no public dispatching function is entered from inside an accelerator *)
(* function: the fallback is the reference implementation itself.           *)
C5_FallbackNeverReenters ==
    \A i, j \in 1..Len(stack) :
        i < j /\ stack[i] \in WebgpuFns => stack[j] \notin PublicFns

AnyOperandRequiresGrad == \E i \in 1..Len(call.args) : call.args[i].requires_grad = 1

HasMetadata(T) ==
    /\ T.requires_grad = 1
    /\ T.op_name = call.name
    /\ T.inputs = call.args
    /\ T.backward_fn = BackwardFn[call.name]

HasNoMetadata(T) ==
    /\ T.requires_grad = 0
    /\ T.op_name = NULL_FN
    /\ T.inputs = <<>>
    /\ T.backward_fn = NULL_FN

(* The call returned a tensor computed on the accelerator path. *)
AccelOutput == IsOpCall /\ Returned /\ dev.submits > 0 /\ ret # NullRet

(* C8 as stated: a wait that exceeds its poll budget returns no error to the *)
(* caller, in session bring-up as in readback.                               *)
C8_TimeoutReturnsNoError ==
    /\ lastInit.called /\ lastInit.timedOut => lastInit.ret = 0
    /\ AccelOutput /\ dev.mapTimedOut => ret.data = "created"

(* C8: a map wait that exceeds its budget leaves the operation returning a   *)
(* non-NULL output whose data the copy did not write, with graph metadata    *)
(* exactly when an operand requires gradients; an adapter or device wait     *)
(* that exceeds its budget makes webgpu_init release its handles and return  *)
(* -1, leaving the session not Ready.                                        *)
C8_TimeoutOutcome ==
    /\ lastInit.called /\ lastInit.timedOut =>
           lastInit.ret = -1 /\ g_webgpu_ctx.initialized = 0
    /\ IsOpCall /\ Returned /\ dev.mapTimedOut =>
           /\ ret # NullRet
           /\ ret.data = "created"
           /\ IF AnyOperandRequiresGrad THEN HasMetadata(ret) ELSE HasNoMetadata(ret)

(* A readback whose map wait timed out returned an unwritten output that *)
(* carries graph metadata.                                               *)
C8_Witness ==
    /\ IsOpCall /\ Returned /\ dev.mapTimedOut
    /\ ret # NullRet /\ ret.data = "created" /\ ret.requires_grad = 1

(* C10: an output of the accelerator path has requires_grad = 1, the        *)
(* operation tag, the operands in operand order as inputs and the gradient  *)
(* rule exactly when some operand has requires_grad = 1; otherwise it has   *)
(* requires_grad = 0 and no tag, inputs or gradient rule.                   *)
C10_MetadataIffRequiresGrad ==
    AccelOutput =>
        IF AnyOperandRequiresGrad THEN HasMetadata(ret) ELSE HasNoMetadata(ret)

(* add on the device with only the second operand requiring gradients *)
C10_Witness ==
    /\ AccelOutput /\ call.name = "add"
    /\ call.args[1].requires_grad = 0 /\ call.args[2].requires_grad = 1
    /\ ret.requires_grad = 1 /\ ret.inputs = call.args /\ ret.data = "device"

(* C11: the gradient rule bound to an output of the accelerator path is the *)
(* rule get_tensor_op_backward_fn returns for the output's operation tag at *)
(* the moment the output is produced.                                       *)
C11_RuleFromRegistry ==
    AccelOutput /\ ret.requires_grad = 1 =>
        ret.backward_fn = get_tensor_op_backward_fn(ret.op_name)

HasNullOperand == \E i \in 1..Len(call.args) : call.args[i] = NULL_PTR

(* C17: a layer_forward call with a NULL layer or a NULL input, and a tensor *)
(* operation called with a NULL operand, is rejected: it touches no device  *)
(* object, enters no function a second time, and returns NULL (or, from the *)
(* reference implementation, that implementation's answer to the NULL       *)
(* operand).                                                                *)
C17_NullOperandRejected ==
    /\ call.fn = "layer_forward" /\ (call.name = NULL_FN \/ HasNullOperand) =>
           /\ dev.buffers = 0 /\ dev.submits = 0
           /\ \A i, j \in 1..Len(stack) : i < j => stack[i] # stack[j]
           /\ Returned =>
                  \/ ret = NullRet
                  \/ call.name \in UnaryOps /\ ret = CpuResult(CpuFn[call.name], call.args)
    /\ IsOpCall /\ HasNullOperand =>
           /\ dev.buffers = 0 /\ dev.submits = 0
           /\ \A i, j \in 1..Len(stack) : i < j => stack[i] # stack[j]

-----------------------------------------------------------------------------
(* One bounded poll loop, iteration by iteration (webgpu_backend.c:110-124, *)
(* 132-143, 204-217, 346-355).                                              *)

PollKinds == {"adapter", "fallback_adapter", "device", "map"}

PollBudget(kind) ==
    CASE kind = "adapter" -> ADAPTER_POLL_BUDGET
      [] kind = "fallback_adapter" -> ADAPTER_POLL_BUDGET
      [] kind = "device" -> DEVICE_POLL_BUDGET
      [] kind = "map" -> MAP_POLL_BUDGET

(* The loop condition: while (!data.done && timeout < budget) *)
PollGuard_unbounded(done, t, budget) == done = 0

PollGuard(done, t, budget) == done = 0 /\ t < budget

(* The asynchronous request is issued; the callback may run inside it. *)
PollRequest ==
    /\ Idle
    /\ \E kind \in PollKinds, spontaneous \in BOOLEAN :
         poll' = [pc |-> "loop", kind |-> kind, t |-> 0,
                  done |-> IF spontaneous THEN 1 ELSE 0,
                  fireAt |-> IF spontaneous THEN 0 ELSE PollBudget(kind) + 1,
                  budget |-> PollBudget(kind), events |-> 0, timedOut |-> FALSE]
    /\ UNCHANGED <<node, gpu, session, kernel, maxFrees, regVars, sessionVars, userRegs, callVars>>

(* One iteration: wgpuInstanceProcessEvents, which may run the callback, *)
(* then timeout++.                                                       *)
PollProcessEvents ==
    /\ poll.pc = "loop"
    /\ PollGuard(poll.done, poll.t, poll.budget)
    /\ \E fires \in BOOLEAN :
         poll' = [poll EXCEPT !.t = @ + 1, !.events = @ + 1,
                              !.done = IF fires THEN 1 ELSE @,
                              !.fireAt = IF fires THEN poll.t + 1 ELSE @]
    /\ UNCHANGED <<node, gpu, session, kernel, maxFrees, regVars, sessionVars, userRegs, callVars>>

(* The loop is left; if (timeout >= budget) the wait is reported as timed out. *)
PollExit ==
    /\ poll.pc = "loop"
    /\ ~PollGuard(poll.done, poll.t, poll.budget)
    /\ poll' = [poll EXCEPT !.pc = "exited", !.timedOut = (poll.t >= poll.budget)]
    /\ UNCHANGED <<node, gpu, session, kernel, maxFrees, regVars, sessionVars, userRegs, callVars>>

PollReturn ==
    /\ poll.pc = "exited"
    /\ poll' = NoPoll
    /\ UNCHANGED <<node, gpu, session, kernel, maxFrees, regVars, sessionVars, userRegs, callVars>>

NextPoll ==
    \/ PollRequest
    \/ PollProcessEvents
    \/ PollExit
    \/ PollReturn

SpecPoll == Init /\ [][NextPoll]_vars

SpecPollFair == SpecPoll /\ WF_vars(PollProcessEvents) /\ WF_vars(PollExit)

-----------------------------------------------------------------------------
(* Properties of the operation registry *)

OpNames == AccelOps \cup LossNames

(* The register_operation_backend calls made for a name since the last cleanup. *)
HistoryFor(name) ==
    LET ForName(c) == c.name = name
    IN  SelectSeq(opHistory, ForName)

MaxPriority(h) == CHOOSE p \in {h[i].priority : i \in 1..Len(h)} :
                      \A i \in 1..Len(h) : h[i].priority <= p

(* The implementation of the earliest call carrying the maximum priority. *)
EarliestOfMaxPriority(h) ==
    IF h = <<>> THEN NULL_FN
    ELSE LET first == CHOOSE i \in 1..Len(h) :
                          /\ h[i].priority = MaxPriority(h)
                          /\ \A j \in 1..(i - 1) : h[j].priority < MaxPriority(h)
         IN  h[first].op_fn

(* C1: for every operation name, get_operation_fn returns the implementation *)
(* of the earliest register_operation_backend call whose priority is the      *)
(* maximum registered for that name; equal or lower priorities never replace. *)
C1_PriorityLaw ==
    \A name \in OpNames : get_operation_fn(name) = EarliestOfMaxPriority(HistoryFor(name))

(* A name registered at priorities 0, 10, 5 in that order resolves to the *)
(* priority-10 implementation.                                            *)
C1_Witness ==
    \E name \in OpNames :
        LET h == HistoryFor(name)
        IN  /\ Len(h) = 3
            /\ <<h[1].priority, h[2].priority, h[3].priority>> = <<0, 10, 5>>
            /\ get_operation_fn(name) = h[2].op_fn

AccelInstalled(name) == \E i \in 1..Len(opHistory) : opHistory[i] = WebgpuRegCalls[
                            CHOOSE k \in 1..Len(WebgpuOpOrder) : WebgpuOpOrder[k] = name]

OnlyBaselineBeside(name) ==
    \A i \in 1..Len(opHistory) :
        opHistory[i].name = name /\ opHistory[i].op_fn # WebgpuFn[name]
            => opHistory[i].priority = CPU_PRIORITY

(* A step gave some accelerated name an accelerator implementation it did *)
(* not resolve to before.                                                 *)
AccelEntryInstalled ==
    \E name \in AccelOps :
        /\ get_operation_fn(name)' = WebgpuFn[name]
        /\ get_operation_fn(name) # WebgpuFn[name]

(* C6: accelerator entries enter the operation registry only in a step that *)
(* ends with the session Ready (webgpu_register_ops on a session that is    *)
(* not Ready, and backend_init_all after a failed webgpu_init, leave the    *)
(* registry alone), they carry priority 10, and once installed a name       *)
(* resolves to the accelerator implementation whatever was registered for   *)
(* it at priority 0, before or after.                                       *)
C6_AccelRegistration ==
    /\ [](\A name \in AccelOps :
             AccelInstalled(name) /\ OnlyBaselineBeside(name)
                 => /\ get_operation_fn(name) = WebgpuFn[name]
                    /\ operation_registry[name].priority = WEBGPU_PRIORITY)
    /\ [][AccelEntryInstalled =>
             /\ g_webgpu_ctx'.initialized = 1
             /\ \A name \in AccelOps : get_operation_fn(name)' \in WebgpuFns \cup
                                           {get_operation_fn(name)}]_vars

(* "add" is registered by the client at priority 0 before and after the *)
(* accelerator entries were installed and resolves to the accelerator.  *)
C6_Witness ==
    \E i, j, k \in 1..Len(opHistory) :
        /\ i < j /\ j < k
        /\ opHistory[i].name = "add" /\ opHistory[i].priority = CPU_PRIORITY
        /\ opHistory[j] = RegCall("add", WebgpuFn["add"], WEBGPU_PRIORITY)
        /\ opHistory[k].name = "add" /\ opHistory[k].priority = CPU_PRIORITY
        /\ get_operation_fn("add") = WebgpuFn["add"]
        /\ g_webgpu_ctx.initialized = 1

-----------------------------------------------------------------------------
(* Gradient rules (part_008:54-313).  A float is modelled by an integer: the *)
(* sums and products of the rules are exact on them.  Buffers are indexed    *)
(* from 0 as in the source.                                                  *)

MaxApplications == 2
MaxDim == 2

GradRules == {"backward_add", "backward_sub", "backward_mul", "backward_matmul",
              "backward_relu", "backward_sigmoid", "backward_tanh", "backward_softmax",
              "backward_mse", "backward_cross_entropy", "backward_binary_cross_entropy"}
ElementwiseRules == {"backward_add", "backward_sub", "backward_mul"}
ActivationRules == {"backward_relu", "backward_sigmoid", "backward_tanh", "backward_softmax"}
LogRules == {"backward_cross_entropy", "backward_binary_cross_entropy"}

At(buf, i) == buf[i + 1]

NullGrad == [null |-> TRUE, buf |-> <<>>]
Grad(buf) == [null |-> FALSE, buf |-> buf]

Size(shape) == IF Len(shape) = 1 THEN shape[1] ELSE shape[1] * shape[2]

GradTensor(shape, data, grad, requires_grad) ==
    [shape |-> shape, size |-> Size(shape), data |-> data, grad |-> grad,
     requires_grad |-> requires_grad]

(* calloc(n, sizeof(float)) *)
calloc(n) == [i \in 1..n |-> 0]

RECURSIVE SumSet(_, _)
SumSet(f, S) ==
    IF S = {} THEN 0
    ELSE LET x == CHOOSE y \in S : TRUE
         IN  f[x] + SumSet(f, S \ {x})

accumulate_assign(T, iterations, index, value) ==
    IF T.requires_grad = 0 THEN T
    ELSE LET g == IF T.grad.null THEN calloc(T.size) ELSE T.grad.buf
         IN  [T EXCEPT !.grad = Grad([i \in 1..Len(g) |->
                 SumSet(value, {it \in iterations : index[it] = i - 1})])]

(* if (T->requires_grad) {                                                 *)
(*     if (!T->grad) T->grad = calloc(T->size, sizeof(float));             *)
(*     for (every iteration it of the loop nest) T->grad[index[it]] += value[it]; } *)
accumulate(T, iterations, index, value) ==
    IF T.requires_grad = 0 THEN T
    ELSE LET g == IF T.grad.null THEN calloc(T.size) ELSE T.grad.buf
         IN  [T EXCEPT !.grad = Grad([i \in 1..Len(g) |->
                 g[i] + SumSet(value, {it \in iterations : index[it] = i - 1})])]

(* for (size_t i = 0; i < T->size; i++) T->grad[i] += value[i]; *)
accumulate_each(T, value) ==
    accumulate(T, 0..(T.size - 1), [i \in 0..(T.size - 1) |-> i], value)

Each(T) == 0..(T.size - 1)

backward_add(g) ==
    LET A == g.inputs[1]
        B == g.inputs[2]
        C == g.out
    IN  [g EXCEPT !.inputs =
            << accumulate_each(A, [i \in Each(A) |-> At(C.grad.buf, i)]),
               accumulate_each(B, [i \in Each(B) |-> At(C.grad.buf, i)]) >>]

backward_sub_adds_both(g) ==
    LET A == g.inputs[1]
        B == g.inputs[2]
        C == g.out
    IN  [g EXCEPT !.inputs =
            << accumulate_each(A, [i \in Each(A) |-> At(C.grad.buf, i)]),
               accumulate_each(B, [i \in Each(B) |-> At(C.grad.buf, i)]) >>]

backward_sub(g) ==
    LET A == g.inputs[1]
        B == g.inputs[2]
        C == g.out
    IN  [g EXCEPT !.inputs =
            << accumulate_each(A, [i \in Each(A) |-> At(C.grad.buf, i)]),
               accumulate_each(B, [i \in Each(B) |-> 0 - At(C.grad.buf, i)]) >>]

backward_mul_own_data(g) ==
    LET A == g.inputs[1]
        B == g.inputs[2]
        C == g.out
    IN  [g EXCEPT !.inputs =
            << accumulate_each(A, [i \in Each(A) |-> At(C.grad.buf, i) * At(A.data, i)]),
               accumulate_each(B, [i \in Each(B) |-> At(C.grad.buf, i) * At(B.data, i)]) >>]

backward_mul(g) ==
    LET A == g.inputs[1]
        B == g.inputs[2]
        C == g.out
    IN  [g EXCEPT !.inputs =
            << accumulate_each(A, [i \in Each(A) |-> At(C.grad.buf, i) * At(B.data, i)]),
               accumulate_each(B, [i \in Each(B) |-> At(C.grad.buf, i) * At(A.data, i)]) >>]

(* The loop nests of backward_matmul: i < A->shape[0], k < A->shape[1]       *)
(* (first loop) or k < B->shape[0] (second loop), j < B->shape[1].           *)
matmul_iterations_A(A, B) ==
    {<<i, k, j>> : i \in 0..(A.shape[1] - 1), k \in 0..(A.shape[2] - 1),
                   j \in 0..(B.shape[2] - 1)}
matmul_iterations_B(A, B) ==
    {<<i, k, j>> : i \in 0..(A.shape[1] - 1), k \in 0..(B.shape[1] - 1),
                   j \in 0..(B.shape[2] - 1)}

(* i * A->shape[1] + k,  i * B->shape[1] + j,  k * B->shape[1] + j *)
matmul_index_A(A, i, k) == i * A.shape[2] + k
matmul_index_C(B, i, j) == i * B.shape[2] + j
matmul_index_B_transposed(B, k, j) == j * B.shape[1] + k
matmul_index_B(B, k, j) == k * B.shape[2] + j

backward_matmul(g) ==
    LET A == g.inputs[1]
        B == g.inputs[2]
        C == g.out
        itA == matmul_iterations_A(A, B)
        itB == matmul_iterations_B(A, B)
    IN  [g EXCEPT !.inputs =
            << accumulate(A, itA,
                   [it \in itA |-> matmul_index_A(A, it[1], it[2])],
                   [it \in itA |-> At(C.grad.buf, matmul_index_C(B, it[1], it[3]))
                                     * At(B.data, matmul_index_B(B, it[2], it[3]))]),
               accumulate(B, itB,
                   [it \in itB |-> matmul_index_B(B, it[2], it[3])],
                   [it \in itB |-> At(C.grad.buf, matmul_index_C(B, it[1], it[3]))
                                     * At(A.data, matmul_index_A(A, it[1], it[2]))]) >>]

backward_relu_nonnegative(g) ==
    LET Z == g.inputs[1]
        A == g.out
    IN  [g EXCEPT !.inputs =
            << accumulate_each(Z, [i \in Each(Z) |->
                   At(A.grad.buf, i) * (IF At(Z.data, i) >= 0 THEN 1 ELSE 0)]) >>]

backward_relu(g) ==
    LET Z == g.inputs[1]
        A == g.out
    IN  [g EXCEPT !.inputs =
            << accumulate_each(Z, [i \in Each(Z) |->
                   At(A.grad.buf, i) * (IF At(Z.data, i) > 0 THEN 1 ELSE 0)]) >>]

backward_sigmoid(g) ==
    LET Z == g.inputs[1]
        A == g.out
    IN  [g EXCEPT !.inputs =
            << accumulate_each(Z, [i \in Each(Z) |->
                   LET sig == At(A.data, i)
                   IN  At(A.grad.buf, i) * sig * (1 - sig)]) >>]

backward_tanh(g) ==
    LET Z == g.inputs[1]
        A == g.out
    IN  [g EXCEPT !.inputs =
            << accumulate_each(Z, [i \in Each(Z) |->
                   LET t == At(A.data, i)
                   IN  At(A.grad.buf, i) * (1 - t * t)]) >>]

backward_softmax(g) ==
    LET Z == g.inputs[1]
        A == g.out
        its == {<<i, j>> : i \in Each(Z), j \in Each(Z)}
    IN  [g EXCEPT !.inputs =
            << accumulate(Z, its, [it \in its |-> it[1]],
                   [it \in its |->
                       LET delta == IF it[1] = it[2] THEN 1 ELSE 0
                       IN  At(A.grad.buf, it[2]) * At(A.data, it[2])
                               * (delta - At(A.data, it[1]))]) >>]

(* 2.0f / size: exact for the sizes 1 and 2 the mse nodes of the model have *)
two_over(size) == 2 \div size

backward_mse(g) ==
    LET predictions == g.inputs[1]
        targets == g.inputs[2]
        L == g.out
    IN  [g EXCEPT !.inputs =
            << accumulate_each(predictions, [i \in Each(predictions) |->
                   two_over(predictions.size)
                       * (At(predictions.data, i) - At(targets.data, i)) * At(L.grad.buf, 0)]),
               accumulate_each(targets, [i \in Each(targets) |->
                   0 - two_over(targets.size)
                       * (At(predictions.data, i) - At(targets.data, i))
                       * At(L.grad.buf, 0)]) >>]

(* backward_cross_entropy and backward_binary_cross_entropy: the quotient and *)
(* logarithm expressions of lines 276, 285, 299-300 and 309-310 read data     *)
(* only; fexpr.p[i] and fexpr.t[i] are their values at index i.               *)
backward_log_loss(g, fexpr) ==
    LET predictions == g.inputs[1]
        targets == g.inputs[2]
        L == g.out
    IN  [g EXCEPT !.inputs =
            << accumulate_each(predictions, [i \in Each(predictions) |->
                   At(fexpr.p, i) * At(L.grad.buf, 0)]),
               accumulate_each(targets, [i \in Each(targets) |->
                   0 - At(fexpr.t, i) * At(L.grad.buf, 0)]) >>]

backward_cross_entropy(g, fexpr) == backward_log_loss(g, fexpr)
backward_binary_cross_entropy(g, fexpr) == backward_log_loss(g, fexpr)

(* C->backward_fn(C) *)
backward_fn(rule, fexpr, g) ==
    CASE rule = "backward_add" -> backward_add(g)
      [] rule = "backward_sub" -> backward_sub(g)
      [] rule = "backward_mul" -> backward_mul(g)
      [] rule = "backward_matmul" -> backward_matmul(g)
      [] rule = "backward_relu" -> backward_relu(g)
      [] rule = "backward_sigmoid" -> backward_sigmoid(g)
      [] rule = "backward_tanh" -> backward_tanh(g)
      [] rule = "backward_softmax" -> backward_softmax(g)
      [] rule = "backward_mse" -> backward_mse(g)
      [] rule = "backward_cross_entropy" -> backward_cross_entropy(g, fexpr)
      [] rule = "backward_binary_cross_entropy" -> backward_binary_cross_entropy(g, fexpr)

(* Graph nodes a client can hand to a gradient rule: an output with its     *)
(* gradient seeded and inputs of the shapes the forward operation accepts.  *)
Pat(p, n) == [i \in 1..n |-> p[((i - 1) % Len(p)) + 1]]

DataA == {<<1, 2, 3, 4>>, <<-2, 0, 3, -1>>}
DataB == {<<5, 6, 7, 8>>, <<0, 2, -1, 1>>}
UpstreamGrads == {<<1, 1, 1, 1>>, <<2, -1, 3, 1>>}
HeldGrad == <<10, 20, 30, 40>>
FexprValues == {<<-1, 2, 0, 3>>, <<4, 1, -2, 5>>}

(* The gradient buffer an input holds before the rule runs: none, or one of *)
(* its own length.                                                         *)
HeldOrNull(held, n) == IF held THEN Grad(Pat(HeldGrad, n)) ELSE NullGrad

ElementwiseShapes == {<<n>> : n \in 1..MaxDim} \cup {<<m, n>> : m, n \in 1..MaxDim}
MatmulShapes == {<<M, K, N>> : M, K, N \in 1..MaxDim}
LossShapes == {s \in ElementwiseShapes : Size(s) <= 2}

InputTensor(shape, data, held, requires_grad) ==
    GradTensor(shape, Pat(data, Size(shape)), HeldOrNull(held, Size(shape)), requires_grad)

OutputTensor(shape, data, upstream) ==
    GradTensor(shape, Pat(data, Size(shape)), Grad(Pat(upstream, Size(shape))), 1)

NoFexpr == [p |-> <<>>, t |-> <<>>]

GraphNode(rule, fexpr, inputs, out) ==
    [rule |-> rule, fexpr |-> fexpr, trace |-> << [inputs |-> inputs, out |-> out] >>]

ElementwiseNodes ==
    {GraphNode(rule, NoFexpr,
               << InputTensor(s, da, ga, ra), InputTensor(s, db, gb, rb) >>,
               OutputTensor(s, <<9>>, ug)) :
         rule \in ElementwiseRules, s \in ElementwiseShapes, da \in DataA, db \in DataB,
         ug \in UpstreamGrads, ra \in {0, 1}, rb \in {0, 1},
         ga \in BOOLEAN, gb \in BOOLEAN}

MatmulNodes ==
    {GraphNode("backward_matmul", NoFexpr,
               << InputTensor(<<s[1], s[2]>>, da, ga, ra),
                  InputTensor(<<s[2], s[3]>>, db, gb, rb) >>,
               OutputTensor(<<s[1], s[3]>>, <<9>>, ug)) :
         s \in MatmulShapes, da \in DataA, db \in DataB,
         ug \in UpstreamGrads, ra \in {0, 1}, rb \in {0, 1},
         ga \in BOOLEAN, gb \in BOOLEAN}

ActivationNodes ==
    {GraphNode(rule, NoFexpr,
               << InputTensor(s, dz, gz, rz) >>, OutputTensor(s, da, ug)) :
         rule \in ActivationRules, s \in ElementwiseShapes, dz \in DataA, da \in DataB,
         ug \in UpstreamGrads, rz \in {0, 1}, gz \in BOOLEAN}

MseNodes ==
    {GraphNode("backward_mse", NoFexpr,
               << InputTensor(s, da, ga, ra), InputTensor(s, db, gb, rb) >>,
               OutputTensor(<<1>>, <<9>>, ug)) :
         s \in LossShapes, da \in DataA, db \in DataB,
         ug \in UpstreamGrads, ra \in {0, 1}, rb \in {0, 1},
         ga \in BOOLEAN, gb \in BOOLEAN}

LogLossNodes ==
    {GraphNode(rule, [p |-> Pat(fp, Size(s)), t |-> Pat(ft, Size(s))],
               << InputTensor(s, <<1, 2, 3, 4>>, ga, ra),
                  InputTensor(s, <<5, 6, 7, 8>>, gb, rb) >>,
               OutputTensor(<<1>>, <<9>>, ug)) :
         rule \in LogRules, s \in LossShapes, fp \in FexprValues, ft \in FexprValues,
         ug \in UpstreamGrads, ra \in {0, 1}, rb \in {0, 1},
         ga \in BOOLEAN, gb \in BOOLEAN}

GradNodes == ElementwiseNodes \cup MatmulNodes \cup ActivationNodes \cup MseNodes
                 \cup LogLossNodes

CurrentGraph == node.trace[Len(node.trace)]

(* The client, or backward(root), calls the gradient rule bound to the node. *)
CallBackwardFn ==
    /\ node.rule \in GradRules
    /\ Len(node.trace) <= MaxApplications
    /\ node' = [node EXCEPT !.trace =
                   Append(@, backward_fn(node.rule, node.fexpr, CurrentGraph))]
    /\ UNCHANGED <<programVars, gpu, session, kernel>>

NextGrad == CallBackwardFn

InitGrad == InitProgram /\ gpu = NoGpu /\ session = NoSession /\ kernel = NoKernel /\ node \in GradNodes

SpecGrad == InitGrad /\ [][NextGrad]_vars

-----------------------------------------------------------------------------
(* Properties of the gradient rules.  node.trace[k] is the graph before the  *)
(* k-th application of the rule and node.trace[k + 1] the graph after it.    *)

Applications == 1..(Len(node.trace) - 1)
InputsOf == IF node.trace = <<>> THEN {} ELSE 1..Len(node.trace[1].inputs)
Before(k, n) == node.trace[k].inputs[n]
After(k, n) == node.trace[k + 1].inputs[n]
OutGrad(k) == node.trace[k].out.grad.buf

(* What the rule adds into: the held buffer, or zeros of the input's length. *)
Base(T) == IF T.grad.null THEN [i \in 1..T.size |-> 0] ELSE T.grad.buf

Delta(k, n) ==
    [i \in 1..Before(k, n).size |-> After(k, n).grad.buf[i] - Base(Before(k, n))[i]]

(* C12: every gradient rule leaves the output, and every input's data,     *)
(* shape and requires_grad, unchanged; it leaves the gradient buffer of an *)
(* input with requires_grad = 0 unchanged; an input with requires_grad = 1 *)
(* has afterwards a buffer of its own length that differs from the held    *)
(* buffer (zeros when none was held) by the same contribution at every     *)
(* application, so that two applications add twice the contribution.       *)
C12_AccumulateOnly ==
    \A k \in Applications :
        /\ node.trace[k + 1].out = node.trace[k].out
        /\ \A n \in InputsOf :
             /\ After(k, n).data = Before(k, n).data
             /\ After(k, n).shape = Before(k, n).shape
             /\ After(k, n).size = Before(k, n).size
             /\ After(k, n).requires_grad = Before(k, n).requires_grad
             /\ Before(k, n).requires_grad = 0 => After(k, n).grad = Before(k, n).grad
             /\ Before(k, n).requires_grad = 1 =>
                    /\ ~After(k, n).grad.null
                    /\ Len(After(k, n).grad.buf) = Before(k, n).size
                    /\ Delta(k, n) = Delta(1, n)

(* binary cross-entropy applied twice: the predictions had no buffer and   *)
(* got one with a non-zero contribution, the targets do not require        *)
(* gradients and keep the buffer they held.                                *)
C12_Witness ==
    /\ node.rule = "backward_binary_cross_entropy"
    /\ Len(node.trace) = 3
    /\ Before(1, 1).requires_grad = 1 /\ Before(1, 1).grad.null
    /\ Before(1, 2).requires_grad = 0 /\ ~Before(1, 2).grad.null
    /\ After(1, 1).grad.buf # calloc(Before(1, 1).size)
    /\ \A i \in 1..Before(1, 1).size :
           After(2, 1).grad.buf[i] = 2 * After(1, 1).grad.buf[i]
    /\ After(2, 2).grad = Before(1, 2).grad

(* C13: the add rule adds C.grad[i] to A.grad[i] and to B.grad[i]; the sub *)
(* rule adds C.grad[i] to A.grad[i] and subtracts it from B.grad[i]; the   *)
(* buffer has the operand's length.                                        *)
C13_AddSubRule ==
    node.rule \in {"backward_add", "backward_sub"} =>
        \A k \in Applications, n \in InputsOf :
            Before(k, n).requires_grad = 1 =>
                /\ ~After(k, n).grad.null
                /\ Len(After(k, n).grad.buf) = Before(k, n).size
                /\ \A i \in 1..Before(k, n).size :
                       After(k, n).grad.buf[i] =
                           IF node.rule = "backward_sub" /\ n = 2
                           THEN Base(Before(k, n))[i] - OutGrad(k)[i]
                           ELSE Base(Before(k, n))[i] + OutGrad(k)[i]

(* add on fresh [2,2] operands with C.grad all ones: both gradients are *)
(* four ones.                                                            *)
C13_Witness ==
    /\ node.rule = "backward_add" /\ Len(node.trace) = 2
    /\ Before(1, 1).shape = <<2, 2>>
    /\ Before(1, 1).requires_grad = 1 /\ Before(1, 1).grad.null
    /\ Before(1, 2).requires_grad = 1 /\ Before(1, 2).grad.null
    /\ OutGrad(1) = <<1, 1, 1, 1>>
    /\ After(1, 1).grad.buf = <<1, 1, 1, 1>>
    /\ After(1, 2).grad.buf = <<1, 1, 1, 1>>

(* C14: the mul rule adds C.grad[i] * B.data[i] to A.grad[i] and *)
(* C.grad[i] * A.data[i] to B.grad[i].                           *)
C14_MulRule ==
    node.rule = "backward_mul" =>
        \A k \in Applications, n \in InputsOf :
            Before(k, n).requires_grad = 1 =>
                /\ ~After(k, n).grad.null
                /\ Len(After(k, n).grad.buf) = Before(k, n).size
                /\ \A i \in 1..Before(k, n).size :
                       After(k, n).grad.buf[i] =
                           Base(Before(k, n))[i] + OutGrad(k)[i] * Before(k, 3 - n).data[i]

(* mul on fresh operands with C.grad all ones: A.grad is B's data and *)
(* B.grad is A's data.                                                 *)
C14_Witness ==
    /\ node.rule = "backward_mul" /\ Len(node.trace) = 2
    /\ Before(1, 1).size = 2
    /\ Before(1, 1).requires_grad = 1 /\ Before(1, 1).grad.null
    /\ Before(1, 2).requires_grad = 1 /\ Before(1, 2).grad.null
    /\ OutGrad(1) = <<1, 1>>
    /\ Before(1, 1).data # Before(1, 2).data
    /\ After(1, 1).grad.buf = Before(1, 2).data
    /\ After(1, 2).grad.buf = Before(1, 1).data

(* C15: the relu rule adds A.grad[i] to Z.grad[i] where Z.data[i] > 0 and *)
(* adds nothing where Z.data[i] <= 0, whatever A.data[i] is.              *)
C15_ReluRule ==
    node.rule = "backward_relu" =>
        \A k \in Applications :
            Before(k, 1).requires_grad = 1 =>
                /\ ~After(k, 1).grad.null
                /\ Len(After(k, 1).grad.buf) = Before(k, 1).size
                /\ \A i \in 1..Before(k, 1).size :
                       After(k, 1).grad.buf[i] =
                           IF Before(k, 1).data[i] > 0
                           THEN Base(Before(k, 1))[i] + OutGrad(k)[i]
                           ELSE Base(Before(k, 1))[i]

(* relu on the input -2, 0, 3, -1 whose output tensor holds positive values *)
(* everywhere: only the element with input 3 receives the upstream value.   *)
C15_Witness ==
    /\ node.rule = "backward_relu" /\ Len(node.trace) = 2
    /\ Before(1, 1).data = <<-2, 0, 3, -1>>
    /\ \A i \in 1..4 : node.trace[1].out.data[i] > 0
    /\ Before(1, 1).requires_grad = 1 /\ Before(1, 1).grad.null
    /\ OutGrad(1) = <<2, -1, 3, 1>>
    /\ After(1, 1).grad.buf = <<0, 0, 3, 0>>

(* Element [r, c] of a row-major matrix with ncols columns. *)
Elem(buf, ncols, r, c) == buf[r * ncols + c + 1]

(* C16: with A:[M,K], B:[K,N], C:[M,N] the matmul rule adds to A.grad[i,k] *)
(* the sum over j of C.grad[i,j] * B[k,j] and to B.grad[k,j] the sum over  *)
(* i of A[i,k] * C.grad[i,j], and every index it computes lies inside the  *)
(* buffer it is applied to.                                                *)
C16_MatmulRule ==
    node.rule = "backward_matmul" =>
        \A t \in Applications :
            LET A == Before(t, 1)
                B == Before(t, 2)
                C == node.trace[t].out
                M == A.shape[1]
                K == A.shape[2]
                N == B.shape[2]
            IN  /\ A.requires_grad = 1 =>
                       /\ Len(After(t, 1).grad.buf) = M * K
                       /\ \A i \in 0..(M - 1), k \in 0..(K - 1) :
                              Elem(After(t, 1).grad.buf, K, i, k) =
                                  Elem(Base(A), K, i, k)
                                    + SumSet([j \in 0..(N - 1) |->
                                                 Elem(C.grad.buf, N, i, j) * Elem(B.data, N, k, j)],
                                             0..(N - 1))
                       /\ \A it \in matmul_iterations_A(A, B) :
                              /\ matmul_index_A(A, it[1], it[2]) \in 0..(A.size - 1)
                              /\ matmul_index_C(B, it[1], it[3]) \in 0..(C.size - 1)
                              /\ matmul_index_B(B, it[2], it[3]) \in 0..(B.size - 1)
                /\ B.requires_grad = 1 =>
                       /\ Len(After(t, 2).grad.buf) = K * N
                       /\ \A k \in 0..(K - 1), j \in 0..(N - 1) :
                              Elem(After(t, 2).grad.buf, N, k, j) =
                                  Elem(Base(B), N, k, j)
                                    + SumSet([i \in 0..(M - 1) |->
                                                 Elem(A.data, K, i, k) * Elem(C.grad.buf, N, i, j)],
                                             0..(M - 1))
                       /\ \A it \in matmul_iterations_B(A, B) :
                              /\ matmul_index_B(B, it[2], it[3]) \in 0..(B.size - 1)
                              /\ matmul_index_C(B, it[1], it[3]) \in 0..(C.size - 1)
                              /\ matmul_index_A(A, it[1], it[2]) \in 0..(A.size - 1)

(* matmul of A:[1,2] and B:[2,2] on fresh operands: both gradients were *)
(* written and A's is not zero.                                          *)
C16_Witness ==
    /\ node.rule = "backward_matmul" /\ Len(node.trace) = 2
    /\ Before(1, 1).shape = <<1, 2>> /\ Before(1, 2).shape = <<2, 2>>
    /\ Before(1, 1).requires_grad = 1 /\ Before(1, 1).grad.null
    /\ Before(1, 2).requires_grad = 1 /\ Before(1, 2).grad.null
    /\ After(1, 1).grad.buf # <<0, 0>>
    /\ Len(After(1, 2).grad.buf) = 4

-----------------------------------------------------------------------------
(* The statements of the device path, one at a time *)

(* One statement of the function.  ok, ok2: whether the objects the         *)
(* statement creates are created; rb: what webgpu_read_buffer meets; crash: *)
(* whether a device call made on a NULL object ends the process.            *)
device_step(g, ins, ok, ok2, rb, crash) ==
    LET usesNull == \E o \in ins.uses : g.objs[o] = "null"
        mayFail == ~g.failed /\ g.failures < MaxFailures
        log(outcome) == Append(g.trace, Event(ins, outcome, usesNull))
    IN  CASE ins.api = "return" ->
                 [g EXCEPT !.status = "returned", !.pc = 0, !.trace = log("ok")]
          [] ins.api \in GuardedApis /\ usesNull ->
                 [g EXCEPT !.pc = @ + 1, !.trace = log("skipped")]
          [] ins.api \notin GuardedApis /\ ins.api # "return" /\ usesNull /\ crash ->
                 [g EXCEPT !.status = "crashed", !.pc = 0, !.trace = log("crash")]
          [] ins.api = "webgpu_read_buffer" /\ ~usesNull ->
                 [g EXCEPT !.pc = @ + 1, !.trace = log(rb),
                           !.output = IF rb = "copied" THEN "device" ELSE @]
          [] ins.api \in CreateApis /\ ~(usesNull /\ crash) ->
                 LET created == ok \/ ~mayFail
                 IN  [g EXCEPT !.pc = @ + 1,
                               !.objs[ins.obj] = IF created THEN "live" ELSE "null",
                               !.failures = IF created THEN @ ELSE @ + 1,
                               !.failed = (@ \/ ~created),
                               !.trace = log(IF created THEN "ok" ELSE "null")]
          [] ins.api = "get_or_create_pipeline" /\ ~(usesNull /\ crash) ->
                 LET r == get_or_create_pipeline(g.cache, g.op, ok \/ ~mayFail, ok2 \/ ~mayFail)
                 IN  [g EXCEPT !.pc = @ + 1,
                               !.objs["pipeline"] = r.pipeline,
                               !.cache = r.cache,
                               !.compiles = IF r.compiled THEN Append(@, g.op) ELSE @,
                               !.failures = IF r.outcome = "null" THEN @ + 1 ELSE @,
                               !.failed = (@ \/ r.outcome = "null"),
                               !.trace = log(r.outcome)]
          [] ins.api = "release" /\ ~(usesNull /\ crash) ->
                 [g EXCEPT !.pc = @ + 1,
                           !.objs[ins.obj] = IF @ = "live" THEN "released" ELSE @,
                           !.trace = log("ok")]
          [] OTHER ->
                 [g EXCEPT !.pc = @ + 1, !.trace = log("ok")]

(* The outcomes the statement can meet.  One creation may yield NULL in a  *)
(* call, in at most MaxFailures calls; the statements after it then run on *)
(* the NULL object.                                                        *)
StepChoices(g, ins) ==
    LET usesNull == \E o \in ins.uses : g.objs[o] = "null"
        mayFail == ~g.failed /\ g.failures < MaxFailures
    IN  {[ok |-> ok, ok2 |-> ok2, rb |-> rb, crash |-> crash] :
            ok \in IF ins.api \in CreateApis \cup {"get_or_create_pipeline"} /\ mayFail
                   THEN BOOLEAN ELSE {TRUE},
            ok2 \in IF ins.api = "get_or_create_pipeline" /\ mayFail THEN BOOLEAN ELSE {TRUE},
            rb \in IF ins.api = "webgpu_read_buffer" THEN ReadbackOutcomes ELSE {"copied"},
            crash \in IF usesNull /\ ins.api \notin GuardedApis THEN BOOLEAN ELSE {FALSE}}

(* The session after a webgpu_init call that returned 0. *)
ReadySession ==
    \E e \in InitEnv :
        LET r == webgpu_init(NoContext, e, 1)
        IN  /\ r.ret = 0
            /\ g_webgpu_ctx = r.ctx
            /\ lastInit = [called |-> TRUE, ret |-> r.ret, timedOut |-> r.timedOut]
            /\ initAttempts = 1
            /\ everFailed = FALSE

(* webgpu_tensor_<op>(operands) with operands that pass the NULL and shape *)
(* tests: tensor_create, then the device path.                             *)
DeviceCall ==
    /\ gpu.status \in {"idle", "returned"}
    /\ webgpu_available(g_webgpu_ctx) = 1
    /\ gpu.calls < MaxCalls
    /\ \E op \in DeviceOps, createOk \in BOOLEAN :
         gpu' = IF createOk
                THEN [gpu EXCEPT !.status = "running", !.op = op, !.pc = 1,
                                 !.objs = NoObjects, !.trace = <<>>,
                                 !.calls = @ + 1, !.output = "created",
                                 !.failed = FALSE]
                ELSE [gpu EXCEPT !.status = "returned", !.op = op, !.pc = 0,
                                 !.objs = NoObjects, !.trace = <<>>,
                                 !.calls = @ + 1, !.output = "NULL",
                                 !.failed = FALSE]
    /\ UNCHANGED <<programVars, node, session, kernel>>

DeviceStep ==
    /\ gpu.status = "running"
    /\ LET ins == Program(gpu.op)[gpu.pc]
       IN  \E c \in StepChoices(gpu, ins) :
               gpu' = device_step(gpu, ins, c.ok, c.ok2, c.rb, c.crash)
    /\ UNCHANGED <<programVars, node, session, kernel>>

NextDevice ==
    \/ DeviceCall
    \/ DeviceStep

InitDevice ==
    InitRegistries /\ ReadySession /\ node = NoNode /\ gpu = NoGpu /\ session = NoSession /\ kernel = NoKernel

SpecDevice == InitDevice /\ [][NextDevice]_vars

-----------------------------------------------------------------------------
(* Properties of the device path.  gpu.trace holds the statements the call *)
(* in progress, or the last call, has executed.                            *)

Ev(i) == gpu.trace[i]
TraceIdx == 1..Len(gpu.trace)
Idx(api, obj) == {i \in TraceIdx : Ev(i).api = api /\ Ev(i).obj = obj}
UploadIdx == {i \in TraceIdx : Ev(i).api = "webgpu_write_buffer"}
ComputeSubmitIdx == Idx("wgpuQueueSubmit", "commands")
CopySubmitIdx == Idx("wgpuQueueSubmit", "copy_commands")
ReadIdx == Idx("webgpu_read_buffer", "staging")
ReleaseIdx == {i \in TraceIdx : Ev(i).api = "release"}
CreationFailed == \E i \in TraceIdx : Ev(i).outcome = "null"

(* C18: when the creation of a device object yields NULL, no device call   *)
(* of the operation is made on a NULL object and the operation returns the *)
(* reference implementation's result.                                      *)
C18_CreationFailureFallsBack ==
    /\ \A i \in TraceIdx :
           Ev(i).api \notin {"release", "return"} /\ Ev(i).usesNull
               => Ev(i).outcome = "skipped"
    /\ gpu.status = "returned" /\ CreationFailed => gpu.output = "reference"

(* The step a logged statement belongs to: 1 upload, 2 compute submit,    *)
(* 3 copy submit, 4 readback, 5 release; 0 for every other statement.     *)
Step(e) ==
    CASE e.api = "webgpu_write_buffer" -> 1
      [] e.api = "wgpuQueueSubmit" /\ e.obj = "commands" -> 2
      [] e.api = "wgpuQueueSubmit" /\ e.obj = "copy_commands" -> 3
      [] e.api = "webgpu_read_buffer" /\ e.obj = "staging" -> 4
      [] e.api = "release" -> 5
      [] OTHER -> 0

(* The statement executed last is in the order upload, compute submit,     *)
(* copy submit, readback, release with the statements before it: no later  *)
(* step precedes it, the step before its own has been made, and the        *)
(* compute submit follows the upload of every data and uniform buffer.     *)
(* Every prefix of the log is the log of an earlier state of the call, so  *)
(* as an invariant this orders all the statements of a call.               *)
StepsInOrder ==
    gpu.trace # <<>> =>
        LET n == Len(gpu.trace)
            last == Step(Ev(n))
            before == {Step(Ev(i)) : i \in 1..(n - 1)}
        IN  /\ last = 1 => before \subseteq {0, 1}
            /\ last = 2 =>
                   /\ before \subseteq {0, 1}
                   /\ {Ev(u).obj : u \in UploadIdx} =
                          SeqToSet(DataBuffers(gpu.op)) \cup SeqToSet(UniformBuffers(gpu.op))
            /\ last = 3 => before \subseteq {0, 1, 2} /\ 2 \in before
            /\ last = 4 => before \subseteq {0, 1, 2, 3} /\ 3 \in before
            /\ last = 5 => 4 \in before

ReturnedOutput == gpu.status = "returned" /\ gpu.output # "NULL"

(* C20 as stated, for the calls in which every device object was created: *)
(* in every accelerated call that returns an output, every upload was     *)
(* queued, the compute and the copy were submitted and the staging buffer *)
(* was mapped and copied into the output, in this order, before any       *)
(* release.                                                               *)
C20_NoStepSkipped ==
    /\ StepsInOrder
    /\ ReturnedOutput /\ ~CreationFailed =>
           /\ \A u \in UploadIdx : Ev(u).outcome = "ok"
           /\ ComputeSubmitIdx # {} /\ CopySubmitIdx # {}
           /\ \E r \in ReadIdx : Ev(r).outcome = "copied"
           /\ gpu.output = "device"

(* The statements logged are the statements of the one call in progress, *)
(* each at its place in the function: no statement of another call lies  *)
(* between them, and a call that returned ran to its return statement.   *)
Statements ==
    [op \in DeviceOps |->
        [i \in 1..Len(Program(op)) |-> <<Program(op)[i].api, Program(op)[i].obj>>]]

OneCallAtATime ==
    /\ gpu.status = "running" => Len(gpu.trace) = gpu.pc - 1
    /\ \A i \in TraceIdx : <<Ev(i).api, Ev(i).obj>> = Statements[gpu.op][i]
    /\ ReturnedOutput =>
           /\ Len(gpu.trace) = Len(Statements[gpu.op])
           /\ Ev(Len(gpu.trace)).api = "return"

(* C20: the statements of an accelerated call run in the order upload,     *)
(* compute submit, copy submit, readback, release; a call that returns an  *)
(* output has made every upload call, both submits and the readback call;  *)
(* an upload or a readback is skipped only for a NULL buffer, and the copy *)
(* into the output only then or when the map wait timed out or the mapped  *)
(* range was NULL; the call returns before a statement of another call.    *)
C20_StepOrder ==
    /\ StepsInOrder
    /\ OneCallAtATime
    /\ ReturnedOutput =>
           /\ ComputeSubmitIdx # {} /\ CopySubmitIdx # {} /\ ReadIdx # {}
           /\ \A u \in UploadIdx : Ev(u).outcome = "skipped" => Ev(u).usesNull
           /\ \A r \in ReadIdx :
                  /\ Ev(r).outcome = "skipped" => Ev(r).usesNull
                  /\ gpu.output = "device" <=> Ev(r).outcome = "copied"
           /\ ~CreationFailed /\ (\A r \in ReadIdx : Ev(r).outcome = "copied") =>
                  /\ \A u \in UploadIdx : Ev(u).outcome = "ok"
                  /\ gpu.output = "device"

(* The second call, a matmul, returned the output the readback wrote, with *)
(* its three uploads made.                                                 *)
C20_Witness ==
    /\ gpu.calls = 2 /\ gpu.op = "matmul"
    /\ ReturnedOutput /\ gpu.output = "device"
    /\ {Ev(u).obj : u \in UploadIdx} = {"buffer_a", "buffer_b", "uniform"}
    /\ \A i \in TraceIdx : Ev(i).outcome \in {"ok", "hit", "copied"}

-----------------------------------------------------------------------------
(* Lifetime of the registry entries over registry_init / registry_cleanup  *)

(* registry_init has run since the last registry_cleanup. *)
RegistryInitialised == LayerNames \subseteq registered.layer

(* Some registry_cleanup has freed registered entries. *)
CleanedBefore == registered.before # {}

BuiltinsResolve ==
    /\ \A n \in LayerNames :
           get_layer_create_fn(n) # NULL_FN /\ get_layer_forward_fn(n) # NULL_FN
    /\ \A n \in LossNames : get_loss_fn(n) # NULL_FN
    /\ \A n \in TensorOpNames : get_tensor_op_backward_fn(n) # NULL_FN
    /\ \A n \in OptimizerNames :
           /\ get_optimizer_init_state_fn(n) # NULL_FN
           /\ get_optimizer_step_fn(n) # NULL_FN
           /\ get_optimizer_free_state_fn(n) # NULL_FN

NoFreedEntry(reg) == \A k \in DOMAIN reg : reg[k].frees = 0

(* C19: registry_cleanup followed by registry_init restores the registries: *)
(* once registry_init has run, every built-in layer, loss, gradient rule    *)
(* and optimizer resolves to a non-NULL function; and over every sequence   *)
(* of registry_init and registry_cleanup calls no entry value is passed to  *)
(* free twice and no name resolves to an entry that has been freed.         *)
C19_CleanupInitRestores ==
    /\ maxFrees <= 1
    /\ NoFreedEntry(layer_registry)
    /\ NoFreedEntry(operation_registry)
    /\ NoFreedEntry(optimizer_registry)
    /\ RegistryInitialised => BuiltinsResolve

(* registry_init has run after a registry_cleanup that freed entries. *)
C19_Witness ==
    /\ CleanedBefore
    /\ maxFrees = 1
    /\ RegistryInitialised
    /\ BuiltinsResolve
    /\ get_layer_create_fn("linear") = "linear_create"

-----------------------------------------------------------------------------
(* The pipeline cache over the calls of a Ready session *)

CacheNames == {gpu.cache[i].name : i \in 1..Len(gpu.cache)}

(* The get_or_create_pipeline statement of the call has returned. *)
PipelineResolved ==
    \E i \in TraceIdx : Ev(i).api = "get_or_create_pipeline" /\ Ev(i).outcome # "crash"

PipelineOutcome ==
    Ev(CHOOSE i \in TraceIdx : Ev(i).api = "get_or_create_pipeline").outcome

NoDuplicates(seq) == \A i, j \in 1..Len(seq) : i # j => seq[i] # seq[j]

-----------------------------------------------------------------------------
(* Lifetime of the device objects of a call *)

CreatedIdx(o) ==
    {i \in TraceIdx : Ev(i).obj = o /\ Ev(i).outcome = "ok"
                      /\ Ev(i).api \in CreateApis \cup {"get_or_create_pipeline"}}

ReleasedIdx(o) == {i \in TraceIdx : Ev(i).obj = o /\ Ev(i).api = "release"}

Transient == DeviceObjects \ {"pipeline"}

(* C22: when an accelerated operation returns through the device path,     *)
(* every device object the call created has been released exactly once,    *)
(* after its creation, whatever the readback did; the pipeline has not     *)
(* been released and is the one object still alive, held by the cache.     *)
C22_TransientsReleasedOnce ==
    ReturnedOutput =>
        /\ \A o \in Transient :
               /\ gpu.objs[o] # "live"
               /\ CreatedIdx(o) # {} =>
                      /\ Cardinality(ReleasedIdx(o)) = 1
                      /\ \A c \in CreatedIdx(o), r \in ReleasedIdx(o) : c < r
                      /\ gpu.objs[o] = "released"
        /\ ReleasedIdx("pipeline") = {}
        /\ gpu.objs["pipeline"] = "live" =>
               /\ gpu.op \in CacheNames
               /\ gpu.cache[CacheIndex(gpu.cache, gpu.op)].pipeline = "live"

(* A softmax call whose map wait timed out returned with its three buffers, *)
(* the staging buffer and the rest released and the pipeline alive.         *)
C22_Witness ==
    /\ ReturnedOutput /\ gpu.op = "softmax"
    /\ \E r \in ReadIdx : Ev(r).outcome = "timeout"
    /\ \A o \in {"buffer_in", "buffer_out", "uniform", "staging", "bind_group_layout",
                 "bind_group", "encoder", "pass", "commands", "copy_encoder",
                 "copy_commands"} : gpu.objs[o] = "released"
    /\ gpu.objs["pipeline"] = "live"

-----------------------------------------------------------------------------
(* The session, with the handles each webgpu_init and webgpu_cleanup call   *)
(* acquires and releases                                                    *)

(* A request whose callback runs in the last permitted poll iteration and   *)
(* delivers its object: the adapter by the first or the second request, or  *)
(* the device.                                                              *)
LateAdapter ==
    {<<ADAPTER_POLL_BUDGET, TRUE, 0, FALSE>>}
    \cup {<<f1, FALSE, ADAPTER_POLL_BUDGET, TRUE>> : f1 \in InTimeFires(ADAPTER_POLL_BUDGET)}

LateEnv ==
    {Env(TRUE, a[1], a[2], a[3], a[4], 0, FALSE, FALSE) : a \in LateAdapter}
    \cup {Env(TRUE, a[1], a[2], a[3], a[4], DEVICE_POLL_BUDGET, TRUE, FALSE) :
             a \in AdapterObtained}

SessionEnv == InitEnv \cup LateEnv

(* The return statement a webgpu_init call leaves by (webgpu_backend.c:74,  *)
(* 85, 123, 142, 149, 216, 225, 239, 243).                                  *)
InitPath(ctx, e) ==
    IF ctx.initialized # 0 THEN "ready"
    ELSE IF ~e.inst THEN "no_instance"
    ELSE IF PollTimedOut(e.a1fire, ADAPTER_POLL_BUDGET) THEN "adapter_timeout"
    ELSE IF ~e.a1ok /\ PollTimedOut(e.a2fire, ADAPTER_POLL_BUDGET) THEN "adapter_timeout"
    ELSE IF ~e.a1ok /\ ~e.a2ok THEN "no_adapter"
    ELSE IF PollTimedOut(e.dfire, DEVICE_POLL_BUDGET) THEN "device_timeout"
    ELSE IF ~e.dok THEN "no_device"
    ELSE IF ~e.queue THEN "no_queue"
    ELSE "initialized"

(* The callback of a request has run, with the object, by the time its poll *)
(* loop is left.                                                            *)
Delivered(ok, fireAt, budget) == ok /\ fireAt <= budget

(* The handles the library handed to the call: the instance, the adapter    *)
(* and device its callbacks stored in adapter_data and device_data, the     *)
(* queue.                                                                   *)
webgpu_init_acquired(ctx, e, gen) ==
    IF ctx.initialized # 0 THEN {}
    ELSE (IF e.inst THEN {Handle("instance", gen)} ELSE {})
         \cup (IF \/ Delivered(e.a1ok, e.a1fire, ADAPTER_POLL_BUDGET)
                  \/ Delivered(e.a2ok, e.a2fire, ADAPTER_POLL_BUDGET)
               THEN {Handle("adapter", gen)} ELSE {})
         \cup (IF Delivered(e.dok, e.dfire, DEVICE_POLL_BUDGET)
               THEN {Handle("device", gen)} ELSE {})
         \cup (IF e.queue THEN {Handle("queue", gen)} ELSE {})

(* The wgpu*Release calls of the failure paths, in order. *)
webgpu_init_releases(ctx, e, gen) ==
    LET path == InitPath(ctx, e)
    IN  CASE path \in {"adapter_timeout", "no_adapter"} -> <<Handle("instance", gen)>>
          [] path \in {"device_timeout", "no_device"} ->
                 <<Handle("adapter", gen), Handle("instance", gen)>>
          [] path = "no_queue" ->
                 <<Handle("device", gen), Handle("adapter", gen), Handle("instance", gen)>>
          [] OTHER -> <<>>

IsHeld(h) == h # NULL_PTR

webgpu_cleanup_releases_instance_first(ctx) ==
    SelectSeq(<<ctx.instance, ctx.adapter, ctx.device, ctx.queue>>, IsHeld)

(* webgpu_backend.c:247-262: the wgpu*Release calls of webgpu_cleanup *)
webgpu_cleanup_releases(ctx) ==
    SelectSeq(<<ctx.queue, ctx.device, ctx.adapter, ctx.instance>>, IsHeld)

(* The request that has not completed when webgpu_init gives up on it: its  *)
(* callback info still points at adapter_data or device_data, locals of the *)
(* returning call (webgpu_backend.c:101-108, 196-202).                      *)
webgpu_init_pending(ctx, e) ==
    LET path == InitPath(ctx, e)
        adapterFire == IF PollTimedOut(e.a1fire, ADAPTER_POLL_BUDGET) THEN e.a1fire
                       ELSE e.a2fire
    IN  IF path = "adapter_timeout" /\ adapterFire > ADAPTER_POLL_BUDGET
        THEN {"adapter_data"}
        ELSE IF path = "device_timeout" /\ e.dfire > DEVICE_POLL_BUDGET
        THEN {"device_data"}
        ELSE {}

(* int webgpu_init(void), with its acquisitions and releases *)
SessionInit ==
    /\ Idle /\ MayInit
    /\ \E e \in SessionEnv :
         LET gen == initAttempts + 1
             r == webgpu_init(g_webgpu_ctx, e, gen)
             releases == webgpu_init_releases(g_webgpu_ctx, e, gen)
         IN  /\ SessionAfterInit(r)
             /\ session' = [session EXCEPT
                                !.call = "webgpu_init",
                                !.entry = g_webgpu_ctx,
                                !.acquired = webgpu_init_acquired(g_webgpu_ctx, e, gen),
                                !.releases = releases,
                                !.released = @ \o releases,
                                !.pending = @ \cup webgpu_init_pending(g_webgpu_ctx, e)]
    /\ UNCHANGED <<node, gpu, kernel, maxFrees, regVars, userRegs, callVars, poll>>

(* void webgpu_cleanup(void), with its releases *)
SessionCleanup ==
    /\ Idle
    /\ g_webgpu_ctx' = webgpu_cleanup(g_webgpu_ctx)
    /\ LET releases == webgpu_cleanup_releases(g_webgpu_ctx)
       IN  session' = [session EXCEPT !.call = "webgpu_cleanup",
                                      !.entry = g_webgpu_ctx,
                                      !.acquired = {},
                                      !.releases = releases,
                                      !.released = @ \o releases]
    /\ UNCHANGED <<node, gpu, kernel, maxFrees, regVars, lastInit, initAttempts, everFailed,
                   userRegs, callVars, poll>>

(* void webgpu_read_buffer(buffer, data, size) on a Ready session with     *)
(* non-NULL arguments: the map request carries &ctx, a local of the call;  *)
(* when the loop gives up before the callback ran, the call returns with   *)
(* the request pending.                                                    *)
SessionReadBuffer ==
    /\ Idle
    /\ webgpu_available(g_webgpu_ctx) = 1
    /\ \E fireAt \in FireChoices(MAP_POLL_BUDGET) :
         session' = [session EXCEPT
                        !.call = "webgpu_read_buffer",
                        !.entry = g_webgpu_ctx,
                        !.acquired = {},
                        !.releases = <<>>,
                        !.pending = IF fireAt > MAP_POLL_BUDGET THEN @ \cup {"ctx"} ELSE @]
    /\ UNCHANGED <<programVars, node, gpu, kernel>>

(* The library completes a request that was pending when its issuer        *)
(* returned (the callbacks are registered with                             *)
(* WGPUCallbackMode_AllowSpontaneous: during a later                       *)
(* wgpuInstanceProcessEvents, during the release of the buffer, adapter or *)
(* instance, or at any other time) and calls adapter_request_callback,     *)
(* device_request_callback or buffer_map_callback, which writes through    *)
(* userdata1.                                                              *)
SessionPendingCallback ==
    /\ Idle
    /\ \E c \in session.pending :
         session' = [session EXCEPT !.pending = @ \ {c}, !.late = @ \cup {c}]
    /\ UNCHANGED <<programVars, node, gpu, kernel>>

(* The operations whose pipelines the session model follows. *)
SessionOps == {"add", "relu"}

(* An accelerated operation on a Ready session, up to the return of         *)
(* get_or_create_pipeline (webgpu_ops.c:191, 323, 410, 527), with the shader *)
(* module and the pipeline created.  g_pipeline_cache is a static of         *)
(* webgpu_ops.c that webgpu_cleanup does not touch.                          *)
SessionPipeline ==
    /\ Idle
    /\ webgpu_available(g_webgpu_ctx) = 1
    /\ \E name \in SessionOps :
         LET r == get_or_create_pipeline(gpu.cache, name, TRUE, TRUE)
             i == CacheIndex(gpu.cache, name)
         IN  /\ gpu' = [gpu EXCEPT !.cache = r.cache]
             /\ session' = [session EXCEPT
                                !.call = "get_or_create_pipeline",
                                !.entry = g_webgpu_ctx,
                                !.acquired = {},
                                !.releases = <<>>,
                                !.pipeline = [name |-> name,
                                              device |-> IF r.compiled
                                                         THEN g_webgpu_ctx.device
                                                         ELSE gpu.cache[i].device,
                                              compiled |-> r.compiled]]
    /\ UNCHANGED <<programVars, node, kernel>>

NextSession ==
    \/ SessionInit
    \/ SessionCleanup
    \/ SessionReadBuffer
    \/ SessionPendingCallback
    \/ SessionPipeline

SpecSession == Init /\ [][NextSession]_vars

HeldHandles(ctx) ==
    {h \in {ctx.queue, ctx.device, ctx.adapter, ctx.instance} : IsHeld(h)}

(* C23: webgpu_cleanup releases the handles the session held at its entry,  *)
(* in the order queue, device, adapter, instance, each once, and leaves all *)
(* four NULL and the session not Ready; with nothing held (a second         *)
(* webgpu_cleanup, or one after a failed or never-run webgpu_init) it       *)
(* releases nothing.  No handle is released twice over all the calls.       *)
C23_CleanupReleasesInOrder ==
    /\ session.call = "webgpu_cleanup" =>
           /\ session.releases =
                  SelectSeq(<<session.entry.queue, session.entry.device,
                              session.entry.adapter, session.entry.instance>>, IsHeld)
           /\ g_webgpu_ctx = NoContext
           /\ session.entry.initialized = 0 => session.releases = <<>>
    /\ NoDuplicates(session.released)
    /\ HeldHandles(g_webgpu_ctx) \cap SeqToSet(session.released) = {}

(* webgpu_cleanup on a Ready session released its four handles, after an *)
(* earlier webgpu_cleanup had released those of the session before.      *)
C23_Witness ==
    /\ session.call = "webgpu_cleanup"
    /\ session.entry.initialized = 1
    /\ Len(session.releases) = 4
    /\ session.releases[1].kind = "queue" /\ session.releases[4].kind = "instance"
    /\ Len(session.released) > 4

-----------------------------------------------------------------------------
(* The softmax shader (webgpu_backend.h:102-170) as webgpu_tensor_softmax   *)
(* dispatches it (webgpu_ops.c:479-578)                                     *)

MaxKernelDim == 3

SOFTMAX_WORKGROUP_SIZE == 256

(* The shapes of rank 2 and 3 that reach the accelerator path. *)
SoftmaxShapes ==
    {<<b, f>> : b \in 1..MaxKernelDim, f \in 1..MaxKernelDim}
    \cup {<<b, x, f>> : b \in 1..MaxKernelDim, x \in 1..MaxKernelDim, f \in 1..MaxKernelDim}

RECURSIVE TimesShape(_, _, _)
(* for (size_t i = 1; i < Z->ndim; i++) stride *= Z->shape[i];  the uint32_t *)
(* product does not wrap for the shapes of SoftmaxShapes                     *)
TimesShape(stride, shape, i) ==
    IF i > Len(shape) THEN stride
    ELSE TimesShape(stride * shape[i], shape, i + 1)

(* webgpu_ops.c:493-500: the params.stride passed to the shader *)
softmax_stride(shape) ==
    LET batch == shape[1]
        size == shape[Len(shape)]
    IN  TimesShape(size, shape, 2) \div batch

RECURSIVE Product(_)
(* Z->size *)
Product(shape) == IF shape = <<>> THEN 1 ELSE Head(shape) * Product(Tail(shape))

Min(a, b) == IF a < b THEN a ELSE b

(* The elements invocation local_idx of workgroup batch_idx reads in phases *)
(* 1 and 2 and writes in phases 2 and 3: offset + i for i = local_idx,      *)
(* local_idx + 256, ... below params.size.                                  *)
softmax_invocation(batch_idx, local_idx, size, stride) ==
    {batch_idx * stride + i :
        i \in {j \in 0..(size - 1) : j % SOFTMAX_WORKGROUP_SIZE = local_idx}}

(* The elements the invocations of workgroup batch_idx touch.  Invocations  *)
(* at or above params.size touch none.                                      *)
softmax_main(batch_idx, size, stride) ==
    UNION {softmax_invocation(batch_idx, l, size, stride) :
              l \in 0..(Min(size, SOFTMAX_WORKGROUP_SIZE) - 1)}

(* webgpu_tensor_softmax up to wgpuComputePassEncoderDispatchWorkgroups(pass, *)
(* batch, 1, 1)                                                               *)
SoftmaxDispatch ==
    /\ kernel.op = "none"
    /\ \E shape \in SoftmaxShapes :
         kernel' = [op |-> "softmax", shape |-> shape, buffer_size |-> Product(shape),
                    size |-> shape[Len(shape)], stride |-> softmax_stride(shape),
                    workgroups |-> shape[1], done |-> {},
                    touched |-> [b \in 0..(shape[1] - 1) |-> {}]]
    /\ UNCHANGED <<programVars, node, gpu, session>>

(* One workgroup of the dispatch runs main; the workgroups run in any order. *)
SoftmaxWorkgroup ==
    /\ kernel.op = "softmax"
    /\ \E b \in (0..(kernel.workgroups - 1)) \ kernel.done :
         kernel' = [kernel EXCEPT
                       !.done = @ \cup {b},
                       !.touched[b] = softmax_main(b, kernel.size, kernel.stride)]
    /\ UNCHANGED <<programVars, node, gpu, session>>

NextSoftmax ==
    \/ SoftmaxDispatch
    \/ SoftmaxWorkgroup

SpecSoftmax == Init /\ [][NextSoftmax]_vars

(* C24: for a 2-D [B, F] input one workgroup per row is dispatched with row *)
(* stride F, workgroup b reads and writes exactly the indices b*F ..        *)
(* b*F+F-1, all workgroups together write every index 0 .. B*F-1, and none  *)
(* touches an index outside the buffer.                                     *)
C24_WorkgroupNormalisesItsRow ==
    (kernel.op = "softmax" /\ Len(kernel.shape) = 2) =>
        LET B == kernel.shape[1]
            F == kernel.shape[2]
        IN  /\ kernel.workgroups = B
            /\ kernel.stride = F
            /\ \A b \in kernel.done :
                   /\ kernel.touched[b] = (b * F)..(b * F + F - 1)
                   /\ kernel.touched[b] \subseteq 0..(kernel.buffer_size - 1)
            /\ kernel.done = 0..(B - 1) =>
                   UNION {kernel.touched[b] : b \in kernel.done} = 0..(B * F - 1)

-----------------------------------------------------------------------------
(* The matmul shader (webgpu_backend.h:33-100) as webgpu_tensor_matmul      *)
(* dispatches it (webgpu_ops.c:270-375).  The shader's tile is 16 x 16; the *)
(* model runs the same program with a tile of TileSize x TileSize, so that  *)
(* the interleavings of a whole workgroup can be enumerated, and dispatches *)
(* (N + TileSize - 1) / TileSize by (M + TileSize - 1) / TileSize           *)
(* workgroups where the host has (N + 15) / 16 by (M + 15) / 16.            *)

TileSize == 2

MatmulShapes3 ==
    {<<M, K, N>> : M \in 1..MaxKernelDim, K \in 1..MaxKernelDim, N \in 1..MaxKernelDim}

(* The operands, row-major. *)
matrix_a(M, K) == [i \in 0..(M * K - 1) |-> i + 1]
matrix_b(K, N) == [j \in 0..(K * N - 1) |-> 2 * j + 1]

Invocations == 0..(TileSize * TileSize - 1)
local_col(inv) == inv % TileSize
local_row(inv) == inv \div TileSize

Statement(step, t) == [step |-> step, t |-> t]

RECURSIVE matmul_steps_one_barrier(_, _)
matmul_steps_one_barrier(t, num_tiles) ==
    IF t >= num_tiles THEN <<Statement("write", 0)>>
    ELSE <<Statement("load", t), Statement("barrier", t), Statement("compute", t)>>
         \o matmul_steps_one_barrier(t + 1, num_tiles)

RECURSIVE matmul_steps(_, _)
(* The statements of main from tile t on: per tile the two tile loads, a    *)
(* workgroupBarrier, the partial dot product and a workgroupBarrier; after  *)
(* the last tile the guarded write of matrix_c.                             *)
matmul_steps(t, num_tiles) ==
    IF t >= num_tiles THEN <<Statement("write", 0)>>
    ELSE <<Statement("load", t), Statement("barrier", t), Statement("compute", t),
           Statement("barrier", t)>>
         \o matmul_steps(t + 1, num_tiles)

(* let num_tiles = (dims.K + TILE_SIZE - 1u) / TILE_SIZE *)
num_tiles(K) == (K + TileSize - 1) \div TileSize

(* The shared memory and the registers of a workgroup at its start. *)
WorkgroupStart ==
    [pc |-> [inv \in Invocations |-> 1],
     sum |-> [inv \in Invocations |-> 0],
     tile_a |-> [slot \in Invocations |-> 0],
     tile_b |-> [slot \in Invocations |-> 0],
     for_a |-> [slot \in Invocations |-> -1],
     for_b |-> [slot \in Invocations |-> -1]]

(* webgpu_tensor_matmul up to wgpuComputePassEncoderDispatchWorkgroups(pass, *)
(* workgroups_x, workgroups_y, 1)                                            *)
MatmulDispatch ==
    /\ kernel.op = "none"
    /\ \E shape \in MatmulShapes3 :
         LET M == shape[1]
             K == shape[2]
             N == shape[3]
         IN  kernel' = [op |-> "matmul", M |-> M, K |-> K, N |-> N,
                        workgroups_x |-> (N + TileSize - 1) \div TileSize,
                        workgroups_y |-> (M + TileSize - 1) \div TileSize,
                        workgroup |-> 0, wg |-> WorkgroupStart,
                        matrix_c |-> [i \in 0..(M * N - 1) |-> 0],
                        written |-> [i \in 0..(M * N - 1) |-> 0],
                        outside |-> FALSE, early |-> FALSE]
    /\ UNCHANGED <<programVars, node, gpu, session>>

Workgroups == kernel.workgroups_x * kernel.workgroups_y
Running == kernel.op = "matmul" /\ kernel.workgroup < Workgroups
Steps == matmul_steps(0, num_tiles(kernel.K))
Current(inv) == Steps[kernel.wg.pc[inv]]
Exited(inv) == kernel.wg.pc[inv] > Len(Steps)

(* global_invocation_id of invocation inv of the running workgroup *)
global_row(inv) == (kernel.workgroup \div kernel.workgroups_x) * TileSize + local_row(inv)
global_col(inv) == (kernel.workgroup % kernel.workgroups_x) * TileSize + local_col(inv)

RECURSIVE SumTo(_, _)
SumTo(f, n) == IF n = 0 THEN 0 ELSE f[n - 1] + SumTo(f, n - 1)

(* webgpu_backend.h:69-83: the invocation stores its element of the tiles of *)
(* A and B, or 0.0 where the tile passes the edge of the matrix.             *)
matmul_load(k, inv, t) ==
    LET row == global_row(inv)
        col == global_col(inv)
        a_col == t * TileSize + local_col(inv)
        b_row == t * TileSize + local_row(inv)
        a == IF row < k.M /\ a_col < k.K THEN matrix_a(k.M, k.K)[row * k.K + a_col] ELSE 0
        b == IF b_row < k.K /\ col < k.N THEN matrix_b(k.K, k.N)[b_row * k.N + col] ELSE 0
    IN  [k EXCEPT !.wg.tile_a[inv] = a, !.wg.for_a[inv] = t,
                  !.wg.tile_b[inv] = b, !.wg.for_b[inv] = t]

(* webgpu_backend.h:87-90: the partial dot product over the tile.  early     *)
(* records a read of a tile element that holds another tile's value.        *)
matmul_compute(k, inv, t) ==
    LET r == local_row(inv)
        c == local_col(inv)
        products == [j \in 0..(TileSize - 1) |->
                        k.wg.tile_a[r * TileSize + j] * k.wg.tile_b[j * TileSize + c]]
        current == \A j \in 0..(TileSize - 1) :
                       /\ k.wg.for_a[r * TileSize + j] = t
                       /\ k.wg.for_b[j * TileSize + c] = t
    IN  [k EXCEPT !.wg.sum[inv] = @ + SumTo(products, TileSize),
                  !.early = (@ \/ ~current)]

(* webgpu_backend.h:95-98: if (row < dims.M && col < dims.N) matrix_c[...] = sum *)
matmul_write(k, inv) ==
    LET row == global_row(inv)
        col == global_col(inv)
        at == row * k.N + col
    IN  IF row < k.M /\ col < k.N
        THEN IF at \in DOMAIN k.matrix_c
             THEN [k EXCEPT !.matrix_c[at] = k.wg.sum[inv], !.written[at] = @ + 1]
             ELSE [k EXCEPT !.outside = TRUE]
        ELSE k

(* One invocation of the running workgroup executes its next statement. *)
MatmulStep ==
    /\ Running
    /\ \E inv \in Invocations :
         /\ ~Exited(inv)
         /\ Current(inv).step # "barrier"
         /\ LET st == Current(inv)
                k == CASE st.step = "load" -> matmul_load(kernel, inv, st.t)
                       [] st.step = "compute" -> matmul_compute(kernel, inv, st.t)
                       [] st.step = "write" -> matmul_write(kernel, inv)
            IN  kernel' = [k EXCEPT !.wg.pc[inv] = @ + 1]
    /\ UNCHANGED <<programVars, node, gpu, session>>

(* workgroupBarrier(): the invocations leave it once all of them wait at it. *)
MatmulBarrier ==
    /\ Running
    /\ \A inv \in Invocations : ~Exited(inv) /\ Current(inv).step = "barrier"
    /\ kernel' = [kernel EXCEPT !.wg.pc = [inv \in Invocations |-> @[inv] + 1]]
    /\ UNCHANGED <<programVars, node, gpu, session>>

(* The workgroup has returned; the next one of the grid starts with its own  *)
(* shared memory.  Workgroups share nothing but matrix_c.                    *)
MatmulNextWorkgroup ==
    /\ Running
    /\ \A inv \in Invocations : Exited(inv)
    /\ kernel' = [kernel EXCEPT !.workgroup = @ + 1, !.wg = WorkgroupStart]
    /\ UNCHANGED <<programVars, node, gpu, session>>

NextMatmul ==
    \/ MatmulDispatch
    \/ MatmulStep
    \/ MatmulBarrier
    \/ MatmulNextWorkgroup

SpecMatmul == Init /\ [][NextMatmul]_vars

(* sum over k < K of A[row, k] * B[k, col] *)
DotProduct(M, K, N, row, col) ==
    SumTo([j \in 0..(K - 1) |-> matrix_a(M, K)[row * K + j] * matrix_b(K, N)[j * N + col]], K)

MatmulFinished == kernel.op = "matmul" /\ kernel.workgroup = Workgroups

(* C25: for A:[M,K] and B:[K,N] the dispatch has the least number of tiles   *)
(* covering N by the least number covering M; under every interleaving of a *)
(* workgroup's invocations no invocation reads a shared-tile element that   *)
(* holds another tile's value; every C[row,col] is written at most once,    *)
(* with the sum over k < K of A[row,k]*B[k,col], and exactly once when the  *)
(* dispatch has finished; nothing is written outside C.                     *)
C25_TiledMatmul ==
    kernel.op = "matmul" =>
        /\ kernel.workgroups_x * TileSize >= kernel.N
        /\ (kernel.workgroups_x - 1) * TileSize < kernel.N
        /\ kernel.workgroups_y * TileSize >= kernel.M
        /\ (kernel.workgroups_y - 1) * TileSize < kernel.M
        /\ ~kernel.early
        /\ ~kernel.outside
        /\ \A row \in 0..(kernel.M - 1), col \in 0..(kernel.N - 1) :
             LET at == row * kernel.N + col
             IN  /\ kernel.written[at] <= 1
                 /\ MatmulFinished => kernel.written[at] = 1
                 /\ kernel.written[at] = 1 =>
                        kernel.matrix_c[at] =
                            DotProduct(kernel.M, kernel.K, kernel.N, row, col)

(* A finished dispatch over sizes that are no multiples of the tile, with    *)
(* more than one tile along K and more than one workgroup along both axes.   *)
C25_Witness ==
    /\ MatmulFinished
    /\ kernel.M % TileSize # 0 /\ kernel.N % TileSize # 0 /\ kernel.K % TileSize # 0
    /\ kernel.K > TileSize
    /\ kernel.workgroups_x > 1 /\ kernel.workgroups_y > 1

-----------------------------------------------------------------------------
(* Properties of the session's handles over webgpu_init and webgpu_cleanup *)

AllHeld(ctx) ==
    IsHeld(ctx.instance) /\ IsHeld(ctx.adapter) /\ IsHeld(ctx.device) /\ IsHeld(ctx.queue)

NoneHeld(ctx) == HeldHandles(ctx) = {}

(* C26: after every return of webgpu_init and webgpu_cleanup, initialized = *)
(* 1 exactly when the four handles are non-NULL; a failed webgpu_init has   *)
(* released every handle it acquired and left the four context handles      *)
(* NULL; webgpu_init on a Ready session returns 0 and changes nothing.      *)
C26_SessionInvariant ==
    /\ g_webgpu_ctx.initialized = 1 <=> AllHeld(g_webgpu_ctx)
    /\ (session.call = "webgpu_init" /\ lastInit.ret = -1) =>
           /\ session.acquired \subseteq SeqToSet(session.releases)
           /\ NoneHeld(g_webgpu_ctx)
    /\ (session.call = "webgpu_init" /\ session.entry.initialized = 1) =>
           /\ lastInit.ret = 0
           /\ g_webgpu_ctx = session.entry
           /\ session.acquired = {} /\ session.releases = <<>>

-----------------------------------------------------------------------------
(* Properties of the exit of a poll loop *)

(* C28: a poll loop reports a timeout only if the completion flag is not set *)
(* when the loop is left, also when the callback ran in the last permitted  *)
(* iteration.                                                               *)
C28_TimeoutOnlyIfNotCompleted ==
    (poll.pc = "exited" /\ poll.timedOut) => poll.done = 0

-----------------------------------------------------------------------------
(* Properties of the completion callbacks *)

(* C27: no completion callback runs on the context of a function that has   *)
(* returned: a request left pending by a poll loop that gave up is never    *)
(* completed into adapter_data, device_data or ctx afterwards.              *)
C27_NoCallbackAfterReturn == session.late = {}

-----------------------------------------------------------------------------
(* Properties of the pipeline cache over sessions *)

(* C29: a pipeline returned by get_or_create_pipeline was created on the    *)
(* device of the session the call runs in; the first call for a name after *)
(* webgpu_cleanup and a successful webgpu_init compiles a new pipeline.     *)
C29_PipelineOfCurrentDevice ==
    session.call = "get_or_create_pipeline" =>
        session.pipeline.device = g_webgpu_ctx.device

-----------------------------------------------------------------------------
(* The add rule on a broadcast bias: C = add(A, b) with A:[R,F] and b:[F],  *)
(* as linear_forward builds it (part_007:247-252)                           *)

BroadcastShapes == {<<R, F>> : R \in 1..MaxDim, F \in 1..MaxDim}

BroadcastNodes ==
    {GraphNode("backward_add", NoFexpr,
               << InputTensor(s, da, ga, ra), InputTensor(<<s[2]>>, db, gb, rb) >>,
               OutputTensor(s, <<9>>, ug)) :
         s \in BroadcastShapes, da \in DataA, db \in DataB,
         ug \in UpstreamGrads, ra \in {0, 1}, rb \in {0, 1},
         ga \in BOOLEAN, gb \in BOOLEAN}

InitBroadcast ==
    InitProgram /\ gpu = NoGpu /\ session = NoSession /\ kernel = NoKernel
    /\ node \in BroadcastNodes

SpecBroadcast == InitBroadcast /\ [][NextGrad]_vars

(* C30: for C = add(A, b) with A:[R,F] and b:[F], an application of the add *)
(* rule adds to b.grad[j] the sum over the rows n < R of C.grad[n*F + j]    *)
(* and to A.grad[i] exactly C.grad[i]; the gradient buffers keep the        *)
(* lengths of their tensors.                                                *)
C30_BroadcastBiasGradient ==
    \A k \in Applications :
        LET R == Before(k, 1).shape[1]
            F == Before(k, 1).shape[2]
        IN  /\ Before(k, 1).requires_grad = 1 =>
                   /\ Len(After(k, 1).grad.buf) = R * F
                   /\ \A i \in 1..(R * F) :
                          After(k, 1).grad.buf[i] = Base(Before(k, 1))[i] + OutGrad(k)[i]
            /\ Before(k, 2).requires_grad = 1 =>
                   /\ Len(After(k, 2).grad.buf) = F
                   /\ \A j \in 0..(F - 1) :
                          At(After(k, 2).grad.buf, j) =
                              At(Base(Before(k, 2)), j)
                              + SumTo([n \in 0..(R - 1) |-> At(OutGrad(k), n * F + j)], R)

=============================================================================
